---- MODULE Spec2Model ----
(***************************************************************************)
(* prompt-version-hub: the version store (services/prompts.py), the        *)
(* deployment tracker (services/deployments.py) and the experiment engine  *)
(* (services/ab.py) as state machines over the relational tables.          *)
(*                                                                         *)
(* Tables are sets of rows; every row carries its primary key `id`, drawn  *)
(* from a counter that never reuses a value.  A handler that runs alone is *)
(* one action (specification Spec).  For the claims about requests that    *)
(* overlap, the same handlers are cut at their SQL statements              *)
(* (specifications SpecTx and SpecAB): each statement reads the committed  *)
(* tables, writes are held by the request's transaction until db.commit(), *)
(* and a request that dies before its commit leaves nothing behind.        *)
(***************************************************************************)
EXTENDS Integers, Sequences, FiniteSets, TLC

VARIABLES
    prompts,          \* table prompts: committed rows
    nextPromptId,     \* primary-key sequence of prompts
    deployments,      \* table deployments: committed rows
    nextDeploymentId, \* primary-key sequence of deployments
    procs,            \* the requests in flight (SpecTx, SpecAB): per worker,
                      \* where its handler stands and what its transaction holds
    policies,         \* table ab_policies: committed rows
    nextPolicyId,     \* primary-key sequence of ab_policies
    assignments,      \* table ab_assignments: committed rows
    nextAssignmentId, \* primary-key sequence of ab_assignments
    pick,             \* one call of choose_variant: its arguments and result
    testCases,        \* table test_cases: committed rows
    nextTestCaseId,   \* primary-key sequence of test_cases
    testRuns,         \* table test_runs: committed rows
    nextTestRunId,    \* primary-key sequence of test_runs
    usageEvents,      \* table usage_events: committed rows
    nextUsageId,      \* primary-key sequence of usage_events
    refreshTokens,    \* table refresh_tokens: committed rows
    nextTokenId,      \* primary-key sequence of refresh_tokens
    logoutAlls,       \* per user, the number of completed /auth/logout-all
    generations,      \* table ai_generations: committed rows
    nextGenerationId, \* primary-key sequence of ai_generations
    served,           \* the /ai/generate-prompt requests answered with a
                      \* prompt: who got it and when
    clock             \* the time, in ticks

storeVars == <<prompts, nextPromptId, deployments, nextDeploymentId>>
abVars == <<policies, nextPolicyId, assignments, nextAssignmentId>>
authVars == <<refreshTokens, nextTokenId, logoutAlls>>
aiVars == <<generations, nextGenerationId, served, clock>>
\* what no handler of prompts, deployments, experiments or tests writes
sideVars == <<usageEvents, nextUsageId, authVars, aiVars>>
\* the tables whose rows reference a prompt row, deployments aside, and the
\* rest of the state
testVars == <<testCases, nextTestCaseId, testRuns, nextTestRunId, sideVars>>
vars == <<storeVars, procs, abVars, pick, testVars>>

(***************************************************************************)
(* Bounds and input domains                                                *)
(***************************************************************************)
\* rows a run inserts into prompts and deployments together (deleted
\* ones included)
MaxInserts == 3

\* the absent row (a query that returns no row)
None == [id |-> 0]
\* an absent or empty string
NoName == <<>>
Users == {1, 2}

\* A name is a sequence of atoms: a run of characters the slug pattern
\* [a-zA-Z0-9_-] accepts ("a", "A", "copy", "2", ...), the character "-",
\* or one character the pattern rejects (" ").
NameA == <<"a">>
\* names a create request may carry; clones add names of their own
PromptNames == {NameA}
\* names a request may address: the creatable ones and every stored one
KnownNames == PromptNames \cup {r.name : r \in prompts}
\* what a clone request may carry as new_name
NewNames == {NoName, <<" ", "A", " ">>}
Environments == {"prod"}
\* the workers that serve requests
Procs == {1, 2}

\* the (template, variables) part of a request body.  A template is a
\* sequence of atoms: a run of characters without a line break, or "\n".
PayloadHi == [template |-> <<"Hi {{name}}">>, variables |-> <<"name">>]
PayloadHello ==
    [template |-> <<"Hi {{name}}", "\n", "Bye">>, variables |-> <<"name">>]
Payloads == {PayloadHi, PayloadHello}
\* the bodies of the requests that overlap (SpecTx)
TxPayloads == {PayloadHi}

(***************************************************************************)
(* services/prompts.py: helpers                                            *)
(***************************************************************************)
RowsOf(rows, name) == {r \in rows : r.name = name}

_is_visibleMut(prompt, viewer_id) == TRUE
_is_visible(prompt, viewer_id) ==
    prompt.created_by = viewer_id \/ prompt.is_public

\* ORDER BY version DESC, first(): a row of the name with the greatest
\* version, None when the name has no row.
_require_latest_prompt(rows, name) ==
    IF RowsOf(rows, name) = {} THEN None
    ELSE CHOOSE r \in RowsOf(rows, name) :
             \A o \in RowsOf(rows, name) : o.version <= r.version

\* TRUE when _require_owner raises PermissionError
NotOwnerMut(prompt, user_id) == FALSE
NotOwnerButOneMut(prompt, user_id) == prompt.created_by /= user_id /\ user_id /= 2
NotOwner(prompt, user_id) == prompt.created_by /= user_id

NewVersionMut(latest) == latest.version + 2
NewVersion(latest) == latest.version + 1

\* UPDATE prompts SET active = false WHERE name = :name AND active:
\* the ids of the rows the statement changes
FlipActiveMut(rows, name) == {}
FlipActive(rows, name) == {r.id : r \in {x \in RowsOf(rows, name) : x.active}}

\* the constraint uq_prompt_name_version
UniquePromptMut(rows, row) == TRUE
UniquePrompt(rows, row) ==
    ~ \E r \in rows : r.name = row.name /\ r.version = row.version

\* the table after a transaction's writes are applied: rows in `flipped`
\* made inactive, then `added` inserted
ApplyFlipMut(rows, flipped) == rows
ApplyFlip(rows, flipped) ==
    {IF r.id \in flipped THEN [r EXCEPT !.active = FALSE] ELSE r : r \in rows}

NewPrompt(id, name, payload, version, user_id, is_public) ==
    [id |-> id, name |-> name, template |-> payload.template,
     variables |-> payload.variables, version |-> version,
     created_by |-> user_id, active |-> TRUE, is_public |-> is_public]

(***************************************************************************)
(* _generate_unique_name                                                   *)
(***************************************************************************)
SlugOk(c) == c \notin {" ", "!"}
Lower(c) == CASE c = "A" -> "a" [] c = "COPY" -> "copy" [] OTHER -> c

\* re.sub(r"[^a-zA-Z0-9_-]+", "-", base): every maximal run of rejected
\* characters becomes one "-"
RECURSIVE SubRuns(_, _)
SubRuns(s, inRun) ==
    IF s = <<>> THEN <<>>
    ELSE IF SlugOk(Head(s)) THEN <<Head(s)>> \o SubRuns(Tail(s), FALSE)
    ELSE IF inRun THEN SubRuns(Tail(s), TRUE)
    ELSE <<"-">> \o SubRuns(Tail(s), TRUE)

RECURSIVE LStrip(_, _)
LStrip(s, chars) ==
    IF s /= <<>> /\ Head(s) \in chars THEN LStrip(Tail(s), chars) ELSE s

RECURSIVE RStrip(_, _)
RStrip(s, chars) ==
    IF s /= <<>> /\ s[Len(s)] \in chars
    THEN RStrip(SubSeq(s, 1, Len(s) - 1), chars) ELSE s

Strip(s, chars) == RStrip(LStrip(s, chars), chars)

Slug(base) ==
    LET t == Strip(SubRuns(base, FALSE), {"-"})
        l == [i \in 1..Len(t) |-> Lower(t[i])]
    IN IF l = <<>> THEN <<"prompt">> ELSE l

Digits(n) == CASE n = 2 -> "2" [] n = 3 -> "3" [] n = 4 -> "4"
               [] n = 5 -> "5" [] n = 6 -> "6" [] OTHER -> "n"

\* the while loop: slug, slug-2, slug-3, ... until no row has the name
RECURSIVE FirstFree(_, _, _)
FirstFree(rows, slug, suffix) ==
    LET candidate == slug \o <<"-", Digits(suffix)>>
    IN IF RowsOf(rows, candidate) = {} THEN candidate
       ELSE FirstFree(rows, slug, suffix + 1)

_generate_unique_name(rows, base) ==
    IF RowsOf(rows, Slug(base)) = {} THEN Slug(base)
    ELSE FirstFree(rows, Slug(base), 2)

(***************************************************************************)
(* services/prompts.py and services/deployments.py: the handlers.  Each is *)
(* an operator from the committed tables and the request to what the       *)
(* handler returns or raises (`result`), the row it returns (`row`) and    *)
(* the table it leaves behind (`prompts`); `id` is the primary key the     *)
(* sequence hands to an inserted row.                                      *)
(***************************************************************************)
Raise(rows, result) == [result |-> result, prompts |-> rows, row |-> None]
Return(rows, row) == [result |-> "ok", prompts |-> rows, row |-> row]

\* db.add(row); db.commit() of a transaction whose UPDATE changed `flipped`
CommitPrompt(rows, flipped, row) ==
    IF UniquePrompt(rows, row)
    THEN Return(ApplyFlip(rows, flipped) \cup {row}, row)
    ELSE Raise(rows, "IntegrityError")

\* TRUE when the first query of create_prompt finds a row of the name
NameTakenMut(rows, name) == FALSE
NameTaken(rows, name) == RowsOf(rows, name) /= {}

create_prompt(rows, id, user_id, name, payload, is_public) ==
    IF NameTaken(rows, name) THEN Raise(rows, "AlreadyExists")
    ELSE CommitPrompt(rows, {},
             NewPrompt(id, name, payload, 1, user_id, is_public))

\* is_public of the row update and rollback insert: `latest.is_public`
CopyForwardMut(latest) == FALSE
CopyForward(latest) == latest.is_public

update_prompt(rows, id, name, user_id, payload) ==
    LET latest == _require_latest_prompt(rows, name) IN
    IF latest = None THEN Raise(rows, "NotFound")
    ELSE IF NotOwner(latest, user_id) THEN Raise(rows, "Forbidden")
    ELSE CommitPrompt(rows, FlipActive(rows, name),
             NewPrompt(id, name, payload, NewVersion(latest), user_id,
                       CopyForward(latest)))

get_version(rows, name, version, viewer_id) ==
    LET found == {r \in RowsOf(rows, name) : r.version = version} IN
    IF found = {} THEN None
    ELSE LET prompt == CHOOSE r \in found : TRUE IN
         IF _is_visible(prompt, viewer_id) THEN prompt ELSE None

\* the row whose template and variables rollback copies: `target`
RollbackContentMut(latest, target) == latest
RollbackContent(latest, target) == target

rollback(rows, id, name, target_version, user_id) ==
    LET latest == _require_latest_prompt(rows, name)
        target == get_version(rows, name, target_version, user_id)
    IN
    IF latest = None THEN Raise(rows, "NotFound")
    ELSE IF NotOwner(latest, user_id) THEN Raise(rows, "Forbidden")
    ELSE IF target = None THEN Raise(rows, "NotFound")
    ELSE CommitPrompt(rows, FlipActive(rows, name),
             NewPrompt(id, name, RollbackContent(latest, target),
                       NewVersion(latest), user_id, CopyForward(latest)))

(***************************************************************************)
(* utils/diff.py and diff_versions.  difflib works on lists of lines; its  *)
(* output is kept as the list of the lines it yields ("".join of no line   *)
(* is the empty string).                                                   *)
(***************************************************************************)
\* lines of context around a change (difflib's n)
DiffContext == 3

\* str.splitlines(keepends=True)
RECURSIVE SplitLines(_, _)
SplitLines(s, cur) ==
    IF s = <<>> THEN (IF cur = <<>> THEN <<>> ELSE <<cur>>)
    ELSE IF Head(s) = "\n"
         THEN <<Append(cur, "\n")>> \o SplitLines(Tail(s), <<>>)
         ELSE SplitLines(Tail(s), Append(cur, Head(s)))

Min(x, y) == IF x <= y THEN x ELSE y
Max(x, y) == IF x >= y THEN x ELSE y

\* the blocks a[i+1..i+k] = b[j+1..j+k] inside a[alo+1..ahi], b[blo+1..bhi]
Matches(a, alo, ahi, b, blo, bhi) ==
    {m \in (alo..(ahi - 1)) \X (blo..(bhi - 1)) \X (1..Max(ahi - alo, 1)) :
        /\ m[1] + m[3] <= ahi /\ m[2] + m[3] <= bhi
        /\ \A d \in 1..m[3] : a[m[1] + d] = b[m[2] + d]}

\* SequenceMatcher.find_longest_match: a longest block, of those the one
\* that starts first in a, of those the one that starts first in b
LongestMatch(a, alo, ahi, b, blo, bhi) ==
    LET ms == Matches(a, alo, ahi, b, blo, bhi) IN
    CHOOSE m \in ms :
        \A o \in ms :
            \/ o[3] < m[3]
            \/ o[3] = m[3] /\ m[1] < o[1]
            \/ o[3] = m[3] /\ m[1] = o[1] /\ m[2] <= o[2]

Tagged(tag, lines, lo, hi) == [i \in 1..(hi - lo) |-> <<tag, lines[lo + i]>>]

\* get_matching_blocks and get_opcodes, as the tagged lines they lead to:
\* " " a line of both, "-" a line of a only, "+" a line of b only
RECURSIVE DiffBody(_, _, _, _, _, _)
DiffBody(a, alo, ahi, b, blo, bhi) ==
    IF Matches(a, alo, ahi, b, blo, bhi) = {}
    THEN Tagged("-", a, alo, ahi) \o Tagged("+", b, blo, bhi)
    ELSE LET m == LongestMatch(a, alo, ahi, b, blo, bhi) IN
         DiffBody(a, alo, m[1], b, blo, m[2])
             \o Tagged(" ", a, m[1], m[1] + m[3])
             \o DiffBody(a, m[1] + m[3], ahi, b, m[2] + m[3], bhi)

\* the number of " " lines `body` starts with
RECURSIVE LeadingEqual(_)
LeadingEqual(body) ==
    IF body = <<>> \/ Head(body)[1] /= " " THEN 0
    ELSE 1 + LeadingEqual(Tail(body))

Reverse(s) == [i \in 1..Len(s) |-> s[Len(s) + 1 - i]]
CountTag(body, tags) == Cardinality({i \in 1..Len(body) : body[i][1] \in tags})

\* get_grouped_opcodes yields no group when nothing differs
NoHunkMut(body) == FALSE
NoHunk(body) == \A i \in 1..Len(body) : body[i][1] = " "

\* _format_range_unified
FormatRange(start, stop) ==
    IF stop - start = 1 THEN <<start + 1>>
    ELSE IF stop - start = 0 THEN <<start, 0>>
    ELSE <<start + 1, stop - start>>

\* difflib.unified_diff for texts whose runs of common lines between two
\* changes are no longer than 2 * DiffContext: one hunk, its common lines
\* at both ends cut down to DiffContext
unified_diff(a, b, fromfile, tofile) ==
    LET body == DiffBody(a, 0, Len(a), b, 0, Len(b))
        skip == Max(LeadingEqual(body) - DiffContext, 0)
        drop == Max(LeadingEqual(Reverse(body)) - DiffContext, 0)
        hunk == SubSeq(body, skip + 1, Len(body) - drop)
    IN IF NoHunk(body) THEN <<>>
       ELSE << <<"---", fromfile>>, <<"+++", tofile>>,
               <<"@@", FormatRange(skip, skip + CountTag(hunk, {" ", "-"})),
                       FormatRange(skip, skip + CountTag(hunk, {" ", "+"}))>> >>
            \o hunk

unified_diff_text(a, b, from_label, to_label) ==
    unified_diff(SplitLines(a, <<>>), SplitLines(b, <<>>), from_label, to_label)

diff_versions(rows, name, from_version, to_version, viewer_id) ==
    LET a == get_version(rows, name, from_version, viewer_id)
        b == get_version(rows, name, to_version, viewer_id)
    IN IF a = None \/ b = None THEN [result |-> "NotFound", diff |-> <<>>]
       ELSE [result |-> "ok",
             diff |-> unified_diff_text(a.template, b.template,
                          <<name, "@", from_version>>, <<name, "@", to_version>>)]

\* the rows the UPDATE of set_visibility matches: filter(Prompt.name == name)
VisibilityTargetsMut(rows, name) == {_require_latest_prompt(rows, name)}
VisibilityTargets(rows, name) == RowsOf(rows, name)

set_visibility(rows, name, user_id, make_public) ==
    LET latest == _require_latest_prompt(rows, name) IN
    IF latest = None THEN Raise(rows, "NotFound")
    ELSE IF NotOwner(latest, user_id) THEN Raise(rows, "Forbidden")
    ELSE IF latest.is_public = make_public THEN Return(rows, latest)
    ELSE Return({IF r \in VisibilityTargets(rows, name)
                 THEN [r EXCEPT !.is_public = make_public]
                 ELSE r : r \in rows},
                [latest EXCEPT !.is_public = make_public])

\* is_public of the row clone_prompt inserts: False
CloneVisibilityMut(source) == source.is_public
CloneVisibility(source) == FALSE

clone_prompt(rows, id, source_name, viewer_id, new_name) ==
    LET source == _require_latest_prompt(rows, source_name) IN
    IF source = None \/ ~_is_visible(source, viewer_id)
    THEN Raise(rows, "NotFound")
    ELSE LET clone_name == IF new_name /= NoName THEN Strip(new_name, {" "})
                           ELSE source.name \o <<"-", "copy">>
             unique_name == _generate_unique_name(rows, clone_name)
         IN CommitPrompt(rows, {},
                NewPrompt(id, unique_name, source, 1, viewer_id,
                          CloneVisibility(source)))

\* the ids delete_prompt looks for in deployments: those of all rows of
\* the name
PromptIdsMut(rows, name) == {r.id : r \in {x \in RowsOf(rows, name) : x.active}}
PromptIds(rows, name) == {r.id : r \in RowsOf(rows, name)}

\* `row` is not used; `count` is the number delete() reports
delete_prompt(rows, deps, name) ==
    LET prompt_ids == PromptIds(rows, name) IN
    IF \E d \in deps : d.prompt_id \in prompt_ids
    THEN [result |-> "HasDeployments", prompts |-> rows, count |-> 0]
    ELSE [result |-> "ok", prompts |-> rows \ RowsOf(rows, name),
          count |-> Cardinality(RowsOf(rows, name))]

\* the rows the query of create_deployment may return as first()
DeployablePromptsMut(rows, prompt_name, version, user_id) ==
    {r \in RowsOf(rows, prompt_name) : r.version = version}
DeployablePrompts(rows, prompt_name, version, user_id) ==
    {r \in RowsOf(rows, prompt_name) :
        r.version = version /\ r.created_by = user_id}

\* deployed_at has server_default now().  Requests that are served one
\* after another get rising stamps: the stamp of a row is the number of its
\* insert.
NewDeployment(id, prompt, environment, user_id) ==
    [id |-> id, prompt_id |-> prompt.id, environment |-> environment,
     deployed_at |-> id, deployed_by |-> user_id]

\* create_deployment as one transaction; `row` is the deployment returned
create_deployment(rows, deps, id, prompt_name, version, environment, user_id) ==
    LET found == DeployablePrompts(rows, prompt_name, version, user_id) IN
    IF found = {}
    THEN [result |-> "NotFound", deployments |-> deps, row |-> None]
    ELSE LET dep == NewDeployment(id, CHOOSE r \in found : TRUE, environment,
                                  user_id)
         IN [result |-> "ok", deployments |-> deps \cup {dep}, row |-> dep]

\* db.query(Deployment).join(Prompt) with the filters of current_deployment
\* and history; prompt_name is <<>> for None (and for "", which `if
\* prompt_name` treats alike)
DeploymentQuery(deps, rows, environment, user_id, prompt_name) ==
    {d \in deps :
        /\ \E r \in rows :
              /\ r.id = d.prompt_id
              /\ prompt_name /= <<>> => r.name = prompt_name[1]
        /\ d.environment = environment
        /\ d.deployed_by = user_id}

\* order_by(Deployment.deployed_at.desc())
RECURSIVE LatestFirstMut(_)
LatestFirstMut(deps) ==
    IF deps = {} THEN <<>>
    ELSE LET top == CHOOSE d \in deps :
                        \A o \in deps : d.deployed_at <= o.deployed_at
         IN <<top>> \o LatestFirstMut(deps \ {top})
RECURSIVE LatestFirst(_)
LatestFirst(deps) ==
    IF deps = {} THEN <<>>
    ELSE LET top == CHOOSE d \in deps :
                        \A o \in deps : o.deployed_at <= d.deployed_at
         IN <<top>> \o LatestFirst(deps \ {top})

current_deployment(deps, rows, environment, user_id, prompt_name) ==
    LET found == LatestFirst(DeploymentQuery(deps, rows, environment, user_id,
                                             prompt_name))
    IN IF found = <<>> THEN None ELSE found[1]

(***************************************************************************)
(* services/prompts.py: the read operations.  An Optional argument is      *)
(* <<>> for None and <<v>> for the value v.                                *)
(***************************************************************************)
_require_visible_prompt(rows, name, viewer_id) ==
    LET prompt == _require_latest_prompt(rows, name) IN
    IF prompt = None \/ ~_is_visible(prompt, viewer_id) THEN None ELSE prompt

\* ORDER BY version DESC
RECURSIVE VersionDesc(_)
VersionDesc(rows) ==
    IF rows = {} THEN <<>>
    ELSE LET top == CHOOSE r \in rows : \A o \in rows : o.version <= r.version
         IN <<top>> \o VersionDesc(rows \ {top})

\* LIMIT limit OFFSET offset
Page(seq, limit, offset) ==
    SubSeq(seq, offset + 1, Min(Len(seq), offset + limit))

list_versions(rows, name, viewer_id, limit, offset, active, created_by) ==
    IF _require_visible_prompt(rows, name, viewer_id) = None
    THEN [result |-> "NotFound", items |-> <<>>]
    ELSE [result |-> "ok",
          items |-> Page(VersionDesc(
              {r \in RowsOf(rows, name) :
                  /\ active /= <<>> => r.active = active[1]
                  /\ created_by /= <<>> => r.created_by = created_by[1]}),
              limit, offset)]

get_active_prompt(rows, name, viewer_id) ==
    LET found == VersionDesc({r \in RowsOf(rows, name) : r.active}) IN
    IF found = <<>> \/ ~_is_visible(found[1], viewer_id) THEN None
    ELSE found[1]

\* name ILIKE '%q%': q occurs in the name, letter case apart
Contains(name, q) ==
    \E i \in 0..(Len(name) - Len(q)) :
        \A d \in 1..Len(q) : Lower(name[i + d]) = Lower(q[d])

\* list_prompts up to its ORDER BY, OFFSET and LIMIT: `rows` are the rows
\* its query selects, of which `items` is one page, and `total` their count
list_prompts(rows, viewer_id, q, active, created_by, latest_only, vis, owned) ==
    LET query ==
          {r \in rows :
              /\ r.is_public \/ r.created_by = viewer_id
              /\ q /= <<>> => Contains(r.name, q)
              /\ active /= <<>> => r.active = active[1]
              /\ created_by /= <<>> => r.created_by = created_by[1]
              /\ vis = <<"public">> => r.is_public
              /\ vis = <<"private">> =>
                     r.created_by = viewer_id /\ ~r.is_public
              /\ vis = <<"owned">> => r.created_by = viewer_id
              /\ owned = <<TRUE>> => r.created_by = viewer_id
              /\ owned = <<FALSE>> => r.created_by /= viewer_id /\ r.is_public
              /\ latest_only => r.active}
    IN [rows |-> query, total |-> Cardinality(query)]

\* services/deployments.py history: the page of the deployments of a user in
\* an environment, latest first
history(deps, rows, environment, user_id, prompt_name, limit, offset) ==
    Page(LatestFirst(DeploymentQuery(deps, rows, environment, user_id,
                                     prompt_name)),
         limit, offset)

(***************************************************************************)
(* Spec: one request at a time                                             *)
(***************************************************************************)
\* a worker with no request
Idle == [pc |-> "idle"]
\* no call of choose_variant
NoPick == [pc |-> "none"]

Init ==
    /\ prompts = {}
    /\ nextPromptId = 1
    /\ deployments = {}
    /\ nextDeploymentId = 1
    /\ procs = [p \in Procs |-> Idle]
    /\ policies = {}
    /\ nextPolicyId = 1
    /\ assignments = {}
    /\ nextAssignmentId = 1
    /\ pick = NoPick
    /\ testCases = {}
    /\ nextTestCaseId = 1
    /\ testRuns = {}
    /\ nextTestRunId = 1
    /\ usageEvents = {}
    /\ nextUsageId = 1
    /\ refreshTokens = {}
    /\ nextTokenId = 1
    /\ logoutAlls = [u \in Users |-> 0]
    /\ generations = {}
    /\ nextGenerationId = 1
    /\ served = {}
    /\ clock = 0

\* rows inserted so far
Inserted == (nextPromptId - 1) + (nextDeploymentId - 1)

\* the step of a handler that returned `r` after asking the sequence for
\* a primary key (a key is spent only by an INSERT that was flushed)
InsertStep(r) ==
    /\ prompts' = r.prompts
    /\ nextPromptId' = IF r.result \in {"ok", "IntegrityError"}
                       THEN nextPromptId + 1 ELSE nextPromptId
    /\ UNCHANGED <<deployments, nextDeploymentId, procs, abVars, pick,
                   testVars>>

Create ==
    /\ Inserted < MaxInserts
    /\ \E u \in Users, n \in PromptNames, p \in Payloads, pub \in BOOLEAN :
          InsertStep(create_prompt(prompts, nextPromptId, u, n, p, pub))

Update ==
    /\ Inserted < MaxInserts
    /\ \E u \in Users, n \in KnownNames, p \in Payloads :
          InsertStep(update_prompt(prompts, nextPromptId, n, u, p))

Rollback ==
    /\ Inserted < MaxInserts
    /\ \E u \in Users, n \in KnownNames, v \in 1..MaxInserts :
          InsertStep(rollback(prompts, nextPromptId, n, v, u))

SetVisibility ==
    \E u \in Users, n \in KnownNames, pub \in BOOLEAN :
        /\ prompts' = set_visibility(prompts, n, u, pub).prompts
        /\ UNCHANGED <<nextPromptId, deployments, nextDeploymentId, procs, abVars,
                       pick, testVars>>

Clone ==
    /\ Inserted < MaxInserts
    /\ \E u \in Users, n \in KnownNames, nn \in NewNames :
          InsertStep(clone_prompt(prompts, nextPromptId, n, u, nn))

Delete ==
    \E n \in KnownNames :
        LET r == delete_prompt(prompts, deployments, n) IN
        /\ prompts' = r.prompts
        /\ UNCHANGED <<nextPromptId, deployments, nextDeploymentId, procs, abVars,
                       pick, testVars>>

Deploy ==
    /\ Inserted < MaxInserts
    /\ \E u \in Users, n \in KnownNames, v \in 1..MaxInserts,
          e \in Environments :
          IF DeployablePrompts(prompts, n, v, u) = {}
          THEN UNCHANGED vars
          ELSE \E prompt \in DeployablePrompts(prompts, n, v, u) :
               /\ deployments' = deployments \cup
                      {NewDeployment(nextDeploymentId, prompt, e, u)}
               /\ nextDeploymentId' = nextDeploymentId + 1
               /\ UNCHANGED <<prompts, nextPromptId, procs, abVars, pick,
                              testVars>>

Next ==
    \/ Create
    \/ Update
    \/ Rollback
    \/ SetVisibility
    \/ Clone
    \/ Delete
    \/ Deploy

Spec == Init /\ [][Next]_vars

(***************************************************************************)
(* SpecDep: deployments of two names into two environments, one request at *)
(* a time.                                                                 *)
(***************************************************************************)
MaxDepPrompts == 2
MaxDeployments == 3
NameB == <<"b">>
DepNames == {NameA, NameB}
DepEnvironments == {"prod", "dev"}

\* POST /prompts/ and PUT /prompts/{name}
DepCreate ==
    /\ nextPromptId <= MaxDepPrompts
    /\ \E u \in Users, n \in DepNames :
          InsertStep(create_prompt(prompts, nextPromptId, u, n, PayloadHi,
                                   FALSE))

DepUpdate ==
    /\ nextPromptId <= MaxDepPrompts
    /\ \E u \in Users, n \in DepNames :
          InsertStep(update_prompt(prompts, nextPromptId, n, u, PayloadHello))

\* DELETE /prompts/{name}
DepDelete ==
    \E n \in DepNames :
        /\ prompts' = delete_prompt(prompts, deployments, n).prompts
        /\ UNCHANGED <<nextPromptId, deployments, nextDeploymentId, procs,
                       abVars, pick, testVars>>

\* POST /deployments/
DepDeploy ==
    /\ nextDeploymentId <= MaxDeployments
    /\ \E u \in Users, n \in DepNames, v \in 1..MaxDepPrompts,
          e \in DepEnvironments :
          LET r == create_deployment(prompts, deployments, nextDeploymentId,
                                     n, v, e, u)
          IN /\ deployments' = r.deployments
             /\ nextDeploymentId' = IF r.result = "ok"
                                     THEN nextDeploymentId + 1
                                     ELSE nextDeploymentId
             /\ UNCHANGED <<prompts, nextPromptId, procs, abVars, pick,
                            testVars>>

NextDep ==
    \/ DepCreate
    \/ DepUpdate
    \/ DepDelete
    \/ DepDeploy

SpecDep == Init /\ [][NextDep]_vars

\* SpecRead: the requests that write the prompts table, the only table the
\* read operations consult
NextRead ==
    \/ Create
    \/ Update
    \/ Rollback
    \/ SetVisibility
    \/ Clone
    \/ Delete

SpecRead == Init /\ [][NextRead]_vars

(***************************************************************************)
(* SpecTx: create, update and rollback requests that overlap.  A worker    *)
(* runs one handler, statement by statement; its session is one            *)
(* transaction, so what the UPDATE changed and the row passed to db.add()  *)
(* reach the table together at db.commit(), or not at all when the INSERT  *)
(* violates uq_prompt_name_version (IntegrityError, which no handler       *)
(* catches) or the worker dies first.                                      *)
(***************************************************************************)
Free(p) == procs[p].pc \in {"idle", "done"}
\* a request goes to the first worker that is free
MayStart(p) == Free(p) /\ \A q \in Procs : q < p => ~Free(q)

\* a handler that has returned or raised; `at` is the statement a worker
\* that died had reached
Done(op, name, user, result, row) ==
    [pc |-> "done", op |-> op, result |-> result, at |-> "end"]

\* a handler that holds a row to insert: `flipped` is what its UPDATE changed
Pending(pc, op, name, user, payload, version, is_public, flipped) ==
    [pc |-> pc, op |-> op, name |-> name, user |-> user,
     template |-> payload.template, variables |-> payload.variables,
     version |-> version, is_public |-> is_public, flipped |-> flipped]

\* create_prompt, the query for an existing row of the name
TxCreateCheck ==
    \E p \in Procs, u \in Users, n \in PromptNames, c \in TxPayloads,
       pub \in BOOLEAN :
        /\ MayStart(p)
        /\ procs' = [procs EXCEPT ![p] =
               IF NameTaken(prompts, n)
               THEN Done("create", n, u, "AlreadyExists", None)
               ELSE Pending("commit", "create", n, u, c, 1, pub, {})]
        /\ UNCHANGED <<storeVars, abVars, pick, testVars>>

\* update_prompt, the read of the latest row and the owner check
TxUpdateRead ==
    \E p \in Procs, u \in Users, n \in PromptNames, c \in TxPayloads :
        LET latest == _require_latest_prompt(prompts, n) IN
        /\ MayStart(p)
        /\ procs' = [procs EXCEPT ![p] =
               IF latest = None THEN Done("update", n, u, "NotFound", None)
               ELSE IF NotOwner(latest, u)
               THEN Done("update", n, u, "Forbidden", None)
               ELSE Pending("flip", "update", n, u, c, NewVersion(latest),
                            latest.is_public, {})]
        /\ UNCHANGED <<storeVars, abVars, pick, testVars>>

\* rollback, the read of the latest row and the owner check
TxRollbackRead ==
    \E p \in Procs, u \in Users, n \in PromptNames, v \in 1..MaxInserts :
        LET latest == _require_latest_prompt(prompts, n) IN
        /\ MayStart(p)
        /\ procs' = [procs EXCEPT ![p] =
               IF latest = None THEN Done("rollback", n, u, "NotFound", None)
               ELSE IF NotOwner(latest, u)
               THEN Done("rollback", n, u, "Forbidden", None)
               ELSE [pc |-> "target", op |-> "rollback", name |-> n,
                     user |-> u, target_version |-> v,
                     version |-> NewVersion(latest),
                     is_public |-> latest.is_public]]
        /\ UNCHANGED <<storeVars, abVars, pick, testVars>>

\* rollback, the read of the target version
TxRollbackTarget ==
    \E p \in Procs :
        /\ procs[p].pc = "target"
        /\ LET me == procs[p]
               target == get_version(prompts, me.name, me.target_version,
                                     me.user)
           IN procs' = [procs EXCEPT ![p] =
                  IF target = None
                  THEN Done("rollback", me.name, me.user, "NotFound", None)
                  ELSE Pending("flip", "rollback", me.name, me.user, target,
                               me.version, me.is_public, {})]
        /\ UNCHANGED <<storeVars, abVars, pick, testVars>>

\* update_prompt and rollback, the UPDATE that clears the active flag
TxFlip ==
    \E p \in Procs :
        /\ procs[p].pc = "flip"
        /\ procs' = [procs EXCEPT ![p] =
               [procs[p] EXCEPT !.pc = "commit",
                                !.flipped = FlipActive(prompts, procs[p].name)]]
        /\ UNCHANGED <<storeVars, abVars, pick, testVars>>

\* db.add(prompt); db.commit() of create_prompt, update_prompt and rollback
TxCommit ==
    \E p \in Procs :
        /\ procs[p].pc = "commit"
        /\ Inserted < MaxInserts
        /\ LET me == procs[p]
               r == CommitPrompt(prompts, me.flipped,
                        NewPrompt(nextPromptId, me.name, me, me.version,
                                  me.user, me.is_public))
           IN /\ prompts' = r.prompts
              /\ procs' = [procs EXCEPT ![p] =
                     Done(me.op, me.name, me.user, r.result, r.row)]
        /\ nextPromptId' = nextPromptId + 1
        /\ UNCHANGED <<deployments, nextDeploymentId, abVars, pick, testVars>>

\* the worker dies (or its connection drops) before db.commit(): the
\* transaction is rolled back
TxCrash ==
    \E p \in Procs :
        /\ ~Free(p)
        /\ procs' = [procs EXCEPT ![p] =
               [Done(procs[p].op, procs[p].name, procs[p].user, "crashed",
                     None) EXCEPT !.at = procs[p].pc]]
        /\ UNCHANGED <<storeVars, abVars, pick, testVars>>

NextTx ==
    \/ TxCreateCheck
    \/ TxUpdateRead
    \/ TxRollbackRead
    \/ TxRollbackTarget
    \/ TxFlip
    \/ TxCommit
    \/ TxCrash

SpecTx == Init /\ [][NextTx]_vars

(***************************************************************************)
(* SpecVis: SpecTx's create, update and rollback requests, statement by    *)
(* statement, together with set_visibility requests.                       *)
(***************************************************************************)
\* the rows an uncommitted UPDATE of another request has changed: they are
\* locked until that request commits
LockedRows == UNION {procs[p].flipped : p \in {q \in Procs : procs[q].pc = "commit"}}

\* set_visibility, whose UPDATE waits while a row of the name is locked
VisSet ==
    \E u \in Users, n \in PromptNames, pub \in BOOLEAN :
        /\ \A r \in RowsOf(prompts, n) : r.id \notin LockedRows
        /\ prompts' = set_visibility(prompts, n, u, pub).prompts
        /\ UNCHANGED <<nextPromptId, deployments, nextDeploymentId, procs,
                       abVars, pick, testVars>>

NextVis ==
    \/ TxCreateCheck
    \/ TxUpdateRead
    \/ TxRollbackRead
    \/ TxRollbackTarget
    \/ TxFlip
    \/ TxCommit
    \/ VisSet

SpecVis == Init /\ [][NextVis]_vars

(***************************************************************************)
(* SpecRun: services/test_cases.py, generate_test_cases and run_tests, one *)
(* request at a time.  A handler stops at each call of the external text   *)
(* generator: the state with pc "gen_call" or "run_call" is the state in   *)
(* which the call is in flight.  The API key is taken to be configured.    *)
(***************************************************************************)
MaxTestCases == 2
MaxTestRuns == 2
\* the users with RoleEnum.admin: the default role is editor, and no user of
\* this model has been made admin
Admins == {}

\* the active row of the name with the highest version, else the row with
\* the highest version
_require_prompt_by_name(rows, prompt_name) ==
    LET active == VersionDesc({r \in RowsOf(rows, prompt_name) : r.active})
        all == VersionDesc(RowsOf(rows, prompt_name))
    IN IF active /= <<>> THEN active[1]
       ELSE IF all /= <<>> THEN all[1] ELSE None

\* the result of _require_prompt_owner: the row, or the error it raises
_require_prompt_owner(rows, prompt_name, user) ==
    LET prompt == _require_prompt_by_name(rows, prompt_name) IN
    IF prompt = None THEN [error |-> "NotFound", prompt |-> None]
    ELSE IF user \notin Admins /\ prompt.created_by /= user
    THEN [error |-> "Forbidden", prompt |-> None]
    ELSE [error |-> "", prompt |-> prompt]

\* the Session begins a transaction with its first query and ends it at
\* commit(), rollback() or close(): after the queries of a handler, which
\* calls none of the three before the generator, a transaction is open
TxAfterQueries == TRUE

\* what model.generate_content and response.text give generate_test_cases:
\* an exception, no text, text that is no JSON, JSON that is no array, or
\* an array of items, some of them with a category outside TestCategoryEnum.
\* An optional text is a sequence of characters, empty when the text is
\* missing or empty.
Categories == {"happy_path", "edge_case", "boundary", "negative"}
BadItem == [category |-> "other", expected_output |-> <<>>]
ExpectedX == [category |-> "happy_path", expected_output |-> <<"x">>]
NoExpected == [category |-> "edge_case", expected_output |-> <<>>]
GenFailures == {"error", "empty", "not_json", "not_list"}
GenResponses ==
    [kind : GenFailures, items : {<<>>}]
        \cup [kind : {"list"},
              items : {<<BadItem>>, <<ExpectedX>>, <<NoExpected>>,
                       <<BadItem, ExpectedX>>, <<ExpectedX, NoExpected>>}]

\* the loop over the parsed items: malformed items are skipped
RECURSIVE ParsedCases(_, _, _, _)
ParsedCases(items, id, prompt, user) ==
    IF items = <<>> THEN <<>>
    ELSE IF Head(items).category \notin Categories
    THEN ParsedCases(Tail(items), id, prompt, user)
    ELSE <<[id |-> id, prompt_id |-> prompt.id,
            category |-> Head(items).category,
            expected_output |-> Head(items).expected_output,
            auto_generated |-> TRUE, created_by |-> user]>>
             \o ParsedCases(Tail(items), id + 1, prompt, user)

SeqRange(seq) == {seq[i] : i \in 1..Len(seq)}

RunDone(op, result, cases, outcomes, runs) ==
    [pc |-> "done", op |-> op, result |-> result, cases |-> cases,
     outcomes |-> outcomes, runs |-> runs]

\* POST /prompts/: the prompt the cases are made for
RunCreate ==
    /\ nextPromptId <= MaxDepPrompts
    /\ \E u \in Users :
          InsertStep(create_prompt(prompts, nextPromptId, u, NameA, PayloadHi,
                                   FALSE))

\* generate_test_cases, lines 140-174: the owner check, then the call starts
GenRead ==
    \E u \in Users, n \in {NameA} :
        /\ \A q \in Procs : Free(q)
        /\ LET owned == _require_prompt_owner(prompts, n, u) IN
           procs' = [procs EXCEPT ![1] =
               IF owned.error /= ""
               THEN RunDone("generate", owned.error, <<>>, <<>>, <<>>)
               ELSE [pc |-> "gen_call", op |-> "generate", user |-> u,
                     prompt |-> owned.prompt, tx |-> TxAfterQueries]]
        /\ UNCHANGED <<storeVars, abVars, pick, testVars>>

\* generate_test_cases, lines 174-215: the call returns; parse, add, commit
GenReturn ==
    \E response \in GenResponses :
        /\ procs[1].pc = "gen_call"
        /\ IF response.kind \in GenFailures
           THEN /\ procs' = [procs EXCEPT ![1] =
                       RunDone("generate", "ExternalServiceError", <<>>, <<>>,
                               <<>>)]
                /\ UNCHANGED testVars
           ELSE LET created == ParsedCases(response.items, nextTestCaseId,
                                           procs[1].prompt, procs[1].user)
                IN /\ nextTestCaseId + Len(created) - 1 <= MaxTestCases
                   /\ testCases' = testCases \cup SeqRange(created)
                   /\ nextTestCaseId' = nextTestCaseId + Len(created)
                   /\ procs' = [procs EXCEPT ![1] =
                          RunDone("generate", "ok", created, <<>>, <<>>)]
                   /\ UNCHANGED <<testRuns, nextTestRunId, sideVars>>
        /\ UNCHANGED <<storeVars, abVars, pick>>

\* what model.generate_content and response.text give run_tests: an
\* exception, or a text (here: the expected text with blanks around it, or
\* another text)
RunOutcomes ==
    {[raised |-> TRUE, text |-> <<>>],
     [raised |-> FALSE, text |-> <<" ", "x", " ">>],
     [raised |-> FALSE, text |-> <<"y">>]}
\* the body of the request: case_ids (empty when absent) and prompt_version
\* (0 when absent)
RunCaseIds == {{}, {1}, {2}, {1, 2}}
RunVersions == {0}

\* the orders in which a query without ORDER BY may return the rows
Orders(rows) ==
    {seq \in [1..Cardinality(rows) -> rows] :
        \A i, j \in 1..Cardinality(rows) : i /= j => seq[i] /= seq[j]}

\* `except Exception` around the call: no outcome of the call leaves the loop
AbortsBatchMut(outcome) == outcome.raised
AbortsBatch(outcome) == FALSE

\* lines 259-287: what one iteration of the loop makes of the call's outcome
TestRunRow(id, me, case, outcome) ==
    LET output_text == IF outcome.raised THEN <<>> ELSE outcome.text
        success ==
            IF outcome.raised THEN <<FALSE>>
            ELSE IF case.expected_output = <<>> THEN <<>>
            ELSE IF output_text = <<>> THEN <<FALSE>>
            ELSE <<Strip(output_text, {" "})
                      = Strip(case.expected_output, {" "})>>
    IN [id |-> id, prompt_id |-> me.prompt.id,
        prompt_version |-> me.prompt_version, test_case_id |-> case.id,
        output |-> output_text, success |-> success,
        error_message |-> IF outcome.raised THEN <<"provider error">>
                          ELSE <<>>,
        executed_by |-> me.user]

\* lines 235-238: the cases of the prompt row, of the given ids if any
SelectedCases(cases, prompt, case_ids) ==
    {c \in cases : /\ c.prompt_id = prompt.id
                   /\ case_ids /= {} => c.id \in case_ids}

\* list_suite, lines 67-76: the cases of the prompt row, for a viewer who
\* may see the prompt
list_suite(rows, cases, prompt_name, viewer) ==
    LET prompt == _require_prompt_by_name(rows, prompt_name) IN
    IF prompt = None THEN [result |-> "NotFound", cases |-> {}]
    ELSE IF /\ prompt.created_by /= viewer
            /\ viewer \notin Admins
            /\ ~prompt.is_public
    THEN [result |-> "Forbidden", cases |-> {}]
    ELSE [result |-> "ok",
          cases |-> {c \in cases : c.prompt_id = prompt.id}]

\* run_tests, lines 234-266: the owner check, the query for the cases, and
\* the first call starts
RunRead ==
    \E u \in Users, n \in {NameA}, case_ids \in RunCaseIds,
       prompt_version \in RunVersions :
        /\ \A q \in Procs : Free(q)
        /\ LET owned == _require_prompt_owner(prompts, n, u)
               prompt == owned.prompt
               selected ==
                   IF owned.error /= "" THEN {}
                   ELSE SelectedCases(testCases, prompt, case_ids)
           IN /\ nextTestRunId + Cardinality(selected) - 1 <= MaxTestRuns
              /\ IF owned.error /= ""
                 THEN procs' = [procs EXCEPT ![1] =
                          RunDone("run_tests", owned.error, <<>>, <<>>, <<>>)]
                 ELSE IF selected = {}
                 THEN procs' = [procs EXCEPT ![1] =
                          RunDone("run_tests", "NotFound", <<>>, <<>>, <<>>)]
                 ELSE \E cases \in Orders(selected) :
                      procs' = [procs EXCEPT ![1] =
                          [pc |-> "run_call", op |-> "run_tests", user |-> u,
                           prompt |-> prompt,
                           prompt_version |->
                               IF prompt_version /= 0 THEN prompt_version
                               ELSE prompt.version,
                           cases |-> cases, outcomes |-> <<>>,
                           tx |-> TxAfterQueries]]
        /\ UNCHANGED <<storeVars, abVars, pick, testVars>>

\* run_tests, lines 266-294: a call returns or raises; the next call starts,
\* or, after the last one, the runs are added and committed
RunReturn ==
    \E outcome \in RunOutcomes :
        /\ procs[1].pc = "run_call"
        /\ LET me == procs[1]
               outcomes == Append(me.outcomes, outcome)
               runs == [i \in 1..Len(me.cases) |->
                           TestRunRow(nextTestRunId + i - 1, me, me.cases[i],
                                      outcomes[i])]
           IN IF AbortsBatch(outcome)
              THEN /\ procs' = [procs EXCEPT ![1] =
                          RunDone("run_tests", "ExternalServiceError",
                                  me.cases, outcomes, <<>>)]
                   /\ UNCHANGED testVars
              ELSE IF Len(outcomes) < Len(me.cases)
              THEN /\ procs' = [procs EXCEPT ![1].outcomes = outcomes]
                   /\ UNCHANGED testVars
              ELSE /\ testRuns' = testRuns \cup SeqRange(runs)
                   /\ nextTestRunId' = nextTestRunId + Len(runs)
                   /\ procs' = [procs EXCEPT ![1] =
                          RunDone("run_tests", "ok", me.cases, outcomes, runs)]
                   /\ UNCHANGED <<testCases, nextTestCaseId, sideVars>>
        /\ UNCHANGED <<storeVars, abVars, pick>>

NextRun ==
    \/ RunCreate
    \/ GenRead
    \/ GenReturn
    \/ RunRead
    \/ RunReturn

SpecRun == Init /\ [][NextRun]_vars

\* PUT /prompts/{name} on the prompt of the suite
SuiteUpdate ==
    /\ nextPromptId <= MaxDepPrompts
    /\ \E u \in Users :
          InsertStep(update_prompt(prompts, nextPromptId, NameA, u,
                                   PayloadHello))

NextSuite ==
    \/ NextRun
    \/ SuiteUpdate

\* SpecSuite: SpecRun with updates of the prompt
SpecSuite == Init /\ [][NextSuite]_vars

(***************************************************************************)
(* SpecDel: DELETE /prompts/{name} on a name whose rows are referenced by  *)
(* deployments, usage events, test cases and test runs.                    *)
(***************************************************************************)
MaxUsageEvents == 1

\* usage.record: usage_events.prompt_id is a foreign key to prompts.id, so
\* the INSERT needs the prompt row
record(rows, usage, id, prompt_id, success) ==
    IF \E r \in rows : r.id = prompt_id
    THEN [result |-> "ok",
          usageEvents |-> usage \cup {[id |-> id, prompt_id |-> prompt_id,
                                       success |-> success]}]
    ELSE [result |-> "IntegrityError", usageEvents |-> usage]

\* what rows the foreign keys to prompts.id stop the DELETE for: those of
\* usage_events, declared without ondelete.  test_cases.prompt_id and
\* test_runs.prompt_id are declared with ondelete="CASCADE".
Restricting(usage, prompt_ids) == {e \in usage : e.prompt_id \in prompt_ids}

\* delete_prompt on all the tables: the check for deployments, then the
\* DELETE, which the store refuses (IntegrityError, which the handler does
\* not catch) or carries out together with the cascades
delete_cascade(rows, deps, usage, cases, runs, name) ==
    LET prompt_ids == PromptIds(rows, name)
        checked == delete_prompt(rows, deps, name)
        keptCases == {c \in cases : c.prompt_id \notin prompt_ids}
        unchanged == [prompts |-> rows, testCases |-> cases,
                      testRuns |-> runs, count |-> 0]
    IN IF checked.result /= "ok"
       THEN [result |-> checked.result] @@ unchanged
       ELSE IF Restricting(usage, prompt_ids) /= {}
       THEN [result |-> "IntegrityError"] @@ unchanged
       ELSE [result |-> "ok", prompts |-> checked.prompts,
             testCases |-> keptCases,
             testRuns |->
                 {IF \E c \in keptCases : c.id = t.test_case_id THEN t
                  ELSE [t EXCEPT !.test_case_id = 0] :
                      t \in {x \in runs : x.prompt_id \notin prompt_ids}},
             count |-> checked.count]

\* POST /usage/
DelRecord ==
    /\ nextUsageId <= MaxUsageEvents
    /\ \E prompt_id \in 1..MaxDepPrompts, success \in BOOLEAN :
          LET r == record(prompts, usageEvents, nextUsageId, prompt_id,
                          success)
          IN /\ usageEvents' = r.usageEvents
             /\ nextUsageId' = nextUsageId + 1
    /\ UNCHANGED <<storeVars, procs, abVars, pick, testCases, nextTestCaseId,
                   testRuns, nextTestRunId, authVars, aiVars>>

\* POST /deployments/
DelDeploy ==
    /\ nextDeploymentId <= MaxDeployments
    /\ \E u \in Users :
          LET r == create_deployment(prompts, deployments, nextDeploymentId,
                                     NameA, 1, "prod", u)
          IN /\ deployments' = r.deployments
             /\ nextDeploymentId' =
                    IF r.result = "ok" THEN nextDeploymentId + 1
                    ELSE nextDeploymentId
    /\ UNCHANGED <<prompts, nextPromptId, procs, abVars, pick, testVars>>

\* DELETE /prompts/{name}
DelDelete ==
    LET r == delete_cascade(prompts, deployments, usageEvents, testCases,
                            testRuns, NameA)
    IN /\ \A q \in Procs : Free(q)
       /\ prompts' = r.prompts
       /\ testCases' = r.testCases
       /\ testRuns' = r.testRuns
       /\ procs' = [procs EXCEPT ![1] =
              RunDone("delete", r.result, <<>>, <<>>, <<>>)]
       /\ UNCHANGED <<nextPromptId, deployments, nextDeploymentId, abVars,
                      pick, nextTestCaseId, nextTestRunId, sideVars>>

NextDel ==
    \/ RunCreate
    \/ GenRead
    \/ GenReturn
    \/ RunRead
    \/ RunReturn
    \/ DelRecord
    \/ DelDeploy
    \/ DelDelete

SpecDel == Init /\ [][NextDel]_vars

(***************************************************************************)
(* SpecRef: POST /deployments/ and DELETE /prompts/{name} that overlap.    *)
(* Each handler reads first and writes afterwards; its write statement and *)
(* its commit are one step, at which the store checks the foreign key      *)
(* deployments.prompt_id -> prompts.id against the committed rows.         *)
(***************************************************************************)
\* the foreign key on INSERT: the referenced prompt row exists
ReferencedMut(rows, prompt_id) == TRUE
Referenced(rows, prompt_id) == \E r \in rows : r.id = prompt_id

\* the foreign key on DELETE: the deployments that reference the rows
Referencing(deps, prompt_ids) == {d \in deps : d.prompt_id \in prompt_ids}

\* POST /prompts/ and PUT /prompts/{name}, as whole handlers
RefCreate ==
    /\ nextPromptId <= MaxDepPrompts
    /\ \E u \in Users :
          InsertStep(create_prompt(prompts, nextPromptId, u, NameA, PayloadHi,
                                   FALSE))

RefUpdate ==
    /\ nextPromptId <= MaxDepPrompts
    /\ \E u \in Users :
          InsertStep(update_prompt(prompts, nextPromptId, NameA, u,
                                   PayloadHello))

\* create_deployment, lines 9-20: the query for the owner's version row
RefDeployRead ==
    \E p \in Procs, u \in Users, v \in 1..MaxDepPrompts :
        /\ MayStart(p)
        /\ nextDeploymentId <= MaxDeployments
        /\ LET r == create_deployment(prompts, deployments, 0, NameA, v,
                                      "prod", u)
           IN procs' = [procs EXCEPT ![p] =
                  IF r.result /= "ok"
                  THEN Done("deploy", NameA, u, r.result, None)
                  ELSE [pc |-> "dep_commit", op |-> "deploy", user |-> u,
                        prompt_id |-> r.row.prompt_id]]
        /\ UNCHANGED <<storeVars, abVars, pick, testVars>>

\* create_deployment, lines 22-27: db.add(dep); db.commit()
RefDeployCommit ==
    \E p \in Procs :
        /\ procs[p].pc = "dep_commit"
        /\ LET me == procs[p]
               dep == NewDeployment(nextDeploymentId, [id |-> me.prompt_id],
                                    "prod", me.user)
           IN IF Referenced(prompts, me.prompt_id)
              THEN /\ deployments' = deployments \cup {dep}
                   /\ procs' = [procs EXCEPT ![p] =
                          Done("deploy", NameA, me.user, "ok", dep)]
              ELSE /\ deployments' = deployments
                   /\ procs' = [procs EXCEPT ![p] =
                          Done("deploy", NameA, me.user, "IntegrityError",
                               None)]
        /\ nextDeploymentId' = nextDeploymentId + 1
        /\ UNCHANGED <<prompts, nextPromptId, abVars, pick, testVars>>

\* delete_prompt, lines 134-144: the ids of the name and the check for
\* deployments
RefDeleteCheck ==
    \E p \in Procs :
        /\ MayStart(p)
        /\ procs' = [procs EXCEPT ![p] =
               IF delete_prompt(prompts, deployments, NameA).result /= "ok"
               THEN Done("delete", NameA, 0, "HasDeployments", None)
               ELSE [pc |-> "del_commit", op |-> "delete"]]
        /\ UNCHANGED <<storeVars, abVars, pick, testVars>>

\* delete_prompt, lines 146-149: the DELETE by name and db.commit()
RefDeleteCommit ==
    \E p \in Procs :
        /\ procs[p].pc = "del_commit"
        /\ IF Referencing(deployments, PromptIds(prompts, NameA)) /= {}
           THEN /\ prompts' = prompts
                /\ procs' = [procs EXCEPT ![p] =
                       Done("delete", NameA, 0, "IntegrityError", None)]
           ELSE /\ prompts' = prompts \ RowsOf(prompts, NameA)
                /\ procs' = [procs EXCEPT ![p] =
                       Done("delete", NameA, 0, "ok", None)]
        /\ UNCHANGED <<nextPromptId, deployments, nextDeploymentId, abVars,
                       pick, testVars>>

NextRef ==
    \/ RefCreate
    \/ RefUpdate
    \/ RefDeployRead
    \/ RefDeployCommit
    \/ RefDeleteCheck
    \/ RefDeleteCommit

SpecRef == Init /\ [][NextRef]_vars

(***************************************************************************)
(* utils/security.py and routers/auth.py: refresh tokens.  The token       *)
(* string of a row is secrets.token_urlsafe(64), a value no other row has: *)
(* here the row's id; cookie value 0 is a string that was never issued.    *)
(* A row is `expired` once utcnow() has passed its expires_at.  Two fields *)
(* of a row are no columns and are read by the properties only: `parent`,  *)
(* the token presented by the request that created the row (0 for a        *)
(* login), and `epoch`, the number of logout-alls of the user that were    *)
(* complete when that request was verified.                                *)
(***************************************************************************)
MaxTokens == 2
MaxLogoutAlls == 1

\* the filter of verify_refresh_token: revoked == False, expires_at > now
UsableMut(t) == ~t.expired
Usable(t) == ~t.revoked /\ ~t.expired

\* the user of the token, 0 when verify_refresh_token returns None
verify_refresh_token(tokens, token) ==
    LET found == {t \in tokens : t.token = token /\ Usable(t)} IN
    IF found = {} THEN 0 ELSE (CHOOSE t \in found : TRUE).user_id

revoke_refresh_token(tokens, token) ==
    {IF t.token = token THEN [t EXCEPT !.revoked = TRUE] ELSE t : t \in tokens}

revoke_all_user_tokens(tokens, user_id) ==
    {IF t.user_id = user_id /\ ~t.revoked THEN [t EXCEPT !.revoked = TRUE]
     ELSE t : t \in tokens}

create_refresh_token(tokens, id, user_id, parent, epoch) ==
    tokens \cup {[id |-> id, user_id |-> user_id, token |-> id,
                  revoked |-> FALSE, expired |-> FALSE, parent |-> parent,
                  epoch |-> epoch]}

cleanup_expired_tokens(tokens) == {t \in tokens : ~t.expired /\ ~t.revoked}

\* the cookie of a request: an issued token string, or one never issued
Cookies == 0..(nextTokenId - 1)

AuthDone(op, result, old, new) ==
    [pc |-> "done", op |-> op, result |-> result, old |-> old, new |-> new]

\* POST /auth/login with the right password
AuthLogin ==
    /\ nextTokenId <= MaxTokens
    /\ \E u \in Users :
          refreshTokens' = create_refresh_token(refreshTokens, nextTokenId, u,
                                                0, logoutAlls[u])
    /\ nextTokenId' = nextTokenId + 1
    /\ UNCHANGED <<storeVars, procs, abVars, pick, testCases, nextTestCaseId,
                   testRuns, nextTestRunId, usageEvents, nextUsageId,
                   logoutAlls, aiVars>>

\* POST /auth/refresh as a whole: verify, revoke the old token, create the
\* new one
AuthRefresh ==
    \E cookie \in Cookies :
        LET user == verify_refresh_token(refreshTokens, cookie) IN
        /\ IF cookie = 0 \/ user = 0
           THEN /\ procs' = [procs EXCEPT ![1] =
                       AuthDone("refresh", "Unauthorized", cookie, 0)]
                /\ UNCHANGED <<refreshTokens, nextTokenId>>
           ELSE /\ nextTokenId <= MaxTokens
                /\ refreshTokens' =
                       create_refresh_token(
                           revoke_refresh_token(refreshTokens, cookie),
                           nextTokenId, user, cookie, logoutAlls[user])
                /\ nextTokenId' = nextTokenId + 1
                /\ procs' = [procs EXCEPT ![1] =
                       AuthDone("refresh", "ok", cookie, nextTokenId)]
        /\ UNCHANGED <<storeVars, abVars, pick, testCases, nextTestCaseId,
                       testRuns, nextTestRunId, usageEvents, nextUsageId,
                       logoutAlls, aiVars>>

\* POST /auth/logout
AuthLogout ==
    \E cookie \in Cookies :
        /\ cookie /= 0
        /\ refreshTokens' = revoke_refresh_token(refreshTokens, cookie)
        /\ UNCHANGED <<storeVars, procs, abVars, pick, testCases,
                       nextTestCaseId, testRuns, nextTestRunId, usageEvents,
                       nextUsageId, nextTokenId, logoutAlls, aiVars>>

\* POST /auth/logout-all
AuthLogoutAll ==
    \E u \in Users :
        /\ logoutAlls[u] < MaxLogoutAlls
        /\ refreshTokens' = revoke_all_user_tokens(refreshTokens, u)
        /\ logoutAlls' = [logoutAlls EXCEPT ![u] = @ + 1]
        /\ UNCHANGED <<storeVars, procs, abVars, pick, testCases,
                       nextTestCaseId, testRuns, nextTestRunId, usageEvents,
                       nextUsageId, nextTokenId, aiVars>>

\* time passes expires_at of a token
AuthExpire ==
    \E t \in refreshTokens :
        /\ ~t.expired
        /\ refreshTokens' =
               (refreshTokens \ {t}) \cup {[t EXCEPT !.expired = TRUE]}
        /\ UNCHANGED <<storeVars, procs, abVars, pick, testCases,
                       nextTestCaseId, testRuns, nextTestRunId, usageEvents,
                       nextUsageId, nextTokenId, logoutAlls, aiVars>>

\* the cleanup job
AuthCleanup ==
    /\ refreshTokens' = cleanup_expired_tokens(refreshTokens)
    /\ UNCHANGED <<storeVars, procs, abVars, pick, testCases, nextTestCaseId,
                   testRuns, nextTestRunId, usageEvents, nextUsageId,
                   nextTokenId, logoutAlls, aiVars>>

NextAuth ==
    \/ AuthLogin
    \/ AuthRefresh
    \/ AuthLogout
    \/ AuthLogoutAll
    \/ AuthExpire
    \/ AuthCleanup

\* SpecAuth: the requests one at a time
SpecAuth == Init /\ [][NextAuth]_vars

(***************************************************************************)
(* SpecAuthTx: /auth/refresh requests on two workers, statement by         *)
(* statement: verify_refresh_token, revoke_refresh_token and               *)
(* create_refresh_token each end with their own commit.                    *)
(***************************************************************************)
\* lines 70-84: the cookie and verify_refresh_token
RfVerify ==
    \E p \in Procs, cookie \in Cookies :
        LET user == verify_refresh_token(refreshTokens, cookie) IN
        /\ MayStart(p)
        /\ procs' = [procs EXCEPT ![p] =
               IF cookie = 0 \/ user = 0
               THEN AuthDone("refresh", "Unauthorized", cookie, 0)
               ELSE [pc |-> "rf_revoke", op |-> "refresh", user |-> user,
                     token |-> cookie, epoch |-> logoutAlls[user]]]
        /\ UNCHANGED <<storeVars, abVars, pick, testVars>>

\* line 93: revoke_refresh_token
RfRevoke ==
    \E p \in Procs :
        /\ procs[p].pc = "rf_revoke"
        /\ refreshTokens' = revoke_refresh_token(refreshTokens, procs[p].token)
        /\ procs' = [procs EXCEPT ![p].pc = "rf_create"]
        /\ UNCHANGED <<storeVars, abVars, pick, testCases, nextTestCaseId,
                       testRuns, nextTestRunId, usageEvents, nextUsageId,
                       nextTokenId, logoutAlls, aiVars>>

\* lines 94-106: create_refresh_token and the response
RfCreate ==
    \E p \in Procs :
        /\ procs[p].pc = "rf_create"
        /\ nextTokenId <= MaxTokens + 1
        /\ refreshTokens' =
               create_refresh_token(refreshTokens, nextTokenId, procs[p].user,
                                    procs[p].token, procs[p].epoch)
        /\ nextTokenId' = nextTokenId + 1
        /\ procs' = [procs EXCEPT ![p] =
               AuthDone("refresh", "ok", procs[p].token, nextTokenId)]
        /\ UNCHANGED <<storeVars, abVars, pick, testCases, nextTestCaseId,
                       testRuns, nextTestRunId, usageEvents, nextUsageId,
                       logoutAlls, aiVars>>

NextAuthTx ==
    \/ AuthLogin
    \/ RfVerify
    \/ RfRevoke
    \/ RfCreate
    \/ AuthLogoutAll

SpecAuthTx == Init /\ [][NextAuthTx]_vars

(***************************************************************************)
(* services/ab.py.  A weights table is a dict: here the sequence of its    *)
(* (key, weight) items in iteration order, keys pairwise different.  A key *)
(* is a decimal string; a subject id is given by the integer its SHA-256   *)
(* digest denotes, the only thing choose_variant reads of it.              *)
(***************************************************************************)
MaxWeight == 2
MaxDigest == 3
MaxTableLen == 2

Keys == {"1", "2", "10", "01"}
\* int(key)
IntOf(k) == CASE k = "1" -> 1 [] k = "01" -> 1 [] k = "2" -> 2 [] k = "10" -> 10
\* str(n)
StrOf(n) == CASE n = 1 -> "1" [] n = 2 -> "2" [] n = 10 -> "10"
\* the order of str: "01" < "1" < "10" < "2"
StrRank(k) == CASE k = "01" -> 0 [] k = "1" -> 1 [] k = "10" -> 2 [] k = "2" -> 3

RECURSIVE SumWeights(_)
SumWeights(items) ==
    IF items = <<>> THEN 0 ELSE Head(items)[2] + SumWeights(Tail(items))

\* sorted(): a stable insertion sort of the items by the rank of their key,
\* rank a function on Keys
RECURSIVE InsertSorted(_, _, _)
InsertSorted(rank, item, sorted) ==
    IF sorted = <<>> THEN <<item>>
    ELSE IF rank[item[1]] < rank[Head(sorted)[1]] THEN <<item>> \o sorted
    ELSE <<Head(sorted)>> \o InsertSorted(rank, item, Tail(sorted))

RECURSIVE SortedBy(_, _)
SortedBy(rank, items) ==
    IF items = <<>> THEN <<>>
    ELSE InsertSorted(rank, items[Len(items)],
                      SortedBy(rank, SubSeq(items, 1, Len(items) - 1)))

\* sorted(weights.items(), key=lambda x: int(x[0]))
SortedItemsMut(weights) == SortedBy([k \in Keys |-> StrRank(k)], weights)
SortedItems(weights) == SortedBy([k \in Keys |-> IntOf(k)], weights)

RECURSIVE FirstOverMut(_, _, _)
FirstOverMut(items, bucket, cumulative) ==
    IF items = <<>> THEN 0
    ELSE IF bucket <= cumulative + Head(items)[2] THEN IntOf(Head(items)[1])
    ELSE FirstOverMut(Tail(items), bucket, cumulative + Head(items)[2])

\* the for loop: the first item at which the running sum passes the bucket;
\* 0 when the loop ends without a return
RECURSIVE FirstOver(_, _, _)
FirstOver(items, bucket, cumulative) ==
    IF items = <<>> THEN 0
    ELSE IF bucket < cumulative + Head(items)[2] THEN IntOf(Head(items)[1])
    ELSE FirstOver(Tail(items), bucket, cumulative + Head(items)[2])

choose_variant(digest, weights) ==
    LET total == SumWeights(weights)
        first == IntOf(weights[1][1])
    IN IF total = 0 THEN first
       ELSE LET found == FirstOver(SortedItems(weights), digest % total, 0)
            IN IF found /= 0 THEN found ELSE first

(***************************************************************************)
(* SpecChoose: choose_variant on every table and digest within the bounds  *)
(***************************************************************************)
Digests == 0..MaxDigest
WeightValues == 0..MaxWeight

\* the keys set_policy writes: str(int(k)), one per version
StoredKeys == {k \in Keys : StrOf(IntOf(k)) = k}

KeySeqs ==
    UNION {{ks \in [1..n -> StoredKeys] :
               \A i, j \in 1..n : i /= j => ks[i] /= ks[j]}
           : n \in 1..MaxTableLen}

\* the non-empty tables, in every iteration order
WeightTables ==
    UNION {{[i \in 1..Len(ks) |-> <<ks[i], ws[i]>>]
              : ws \in [1..Len(ks) -> WeightValues]} : ks \in KeySeqs}

InitChoose ==
    /\ prompts = {}
    /\ nextPromptId = 1
    /\ deployments = {}
    /\ nextDeploymentId = 1
    /\ procs = [p \in Procs |-> Idle]
    /\ policies = {}
    /\ nextPolicyId = 1
    /\ assignments = {}
    /\ nextAssignmentId = 1
    /\ testCases = {}
    /\ nextTestCaseId = 1
    /\ testRuns = {}
    /\ nextTestRunId = 1
    /\ usageEvents = {}
    /\ nextUsageId = 1
    /\ refreshTokens = {}
    /\ nextTokenId = 1
    /\ logoutAlls = [u \in Users |-> 0]
    /\ generations = {}
    /\ nextGenerationId = 1
    /\ served = {}
    /\ clock = 0
    /\ \E d \in Digests, w \in WeightTables :
          pick = [pc |-> "call", digest |-> d, weights |-> w]

Choose ==
    /\ pick.pc = "call"
    /\ pick' = [pc |-> "returned", digest |-> pick.digest,
                weights |-> pick.weights,
                result |-> choose_variant(pick.digest, pick.weights)]
    /\ UNCHANGED <<storeVars, procs, abVars, testVars>>

NextChoose == Choose

SpecChoose == InitChoose /\ [][NextChoose]_vars

(***************************************************************************)
(* Policies and assignments (services/ab.py, models/ab.py)                 *)
(***************************************************************************)
MaxAbInserts == 3

Experiments == {"exp1"}
\* subject ids, each given by the integer of its SHA-256 digest
AbSubjects == {0, 1}

\* request bodies of POST /ab/policy: two arms (one key written "01"), one
\* arm, a weight of 0 after a good one, and no arm at all
WeightInputs ==
    { <<<<"01", 1>>, <<"2", 1>>>>, <<<<"2", 1>>>>, <<<<"1", 1>>, <<"2", 0>>>>,
      <<>> }

\* norm[key] = iv on a dict: an old key keeps its place, a new one is appended
DictSet(norm, key, iv) ==
    IF \E i \in 1..Len(norm) : norm[i][1] = key
    THEN [i \in 1..Len(norm) |->
             IF norm[i][1] = key THEN <<key, iv>> ELSE norm[i]]
    ELSE Append(norm, <<key, iv>>)

\* the loop of set_policy over weights.items(), for the items all positive
RECURSIVE Normalise(_, _)
Normalise(weights, norm) ==
    IF weights = <<>> THEN norm
    ELSE Normalise(Tail(weights),
                   DictSet(norm, StrOf(IntOf(Head(weights)[1])), Head(weights)[2]))

NewPolicy(id, prompt_name, weights, user_id, is_public) ==
    [id |-> id, prompt_name |-> prompt_name, weights |-> weights,
     created_by |-> user_id, is_public |-> is_public]

\* the bodies of POST /ab/policy: a public policy of two arms, a private one
\* of one arm, one of no arm with is_public left at its default, and one
\* with a weight of 0 after a good one
PolRequests ==
    { [weights |-> <<<<"01", 1>>, <<"2", 1>>>>, is_public |-> TRUE],
      [weights |-> <<<<"2", 1>>>>, is_public |-> FALSE],
      [weights |-> <<>>, is_public |-> FALSE],
      [weights |-> <<<<"1", 1>>, <<"2", 0>>>>, is_public |-> FALSE] }

\* `if iv <= 0: raise ValueError`
NonPositiveMut(iv) == FALSE
NonPositive(iv) == iv <= 0

\* TRUE when the loop of set_policy raises
InvalidWeights(weights) ==
    \E i \in 1..Len(weights) : NonPositive(weights[i][2])

\* the rows the query of set_policy can return: the caller's for the name
OwnPolicies(rows, prompt_name, user_id) ==
    {r \in rows : r.prompt_name = prompt_name /\ r.created_by = user_id}

set_policy(rows, id, prompt_name, weights, user_id, is_public) ==
    IF InvalidWeights(weights)
    THEN [result |-> "InvalidArgument", policies |-> rows]
    ELSE LET norm == Normalise(weights, <<>>)
             own == OwnPolicies(rows, prompt_name, user_id)
         IN IF own = {}
            THEN [result |-> "ok",
                  policies |-> rows \cup
                      {NewPolicy(id, prompt_name, norm, user_id, is_public)}]
            ELSE [result |-> "ok",
                  policies |-> {IF r \in own
                                THEN [r EXCEPT !.weights = norm,
                                               !.is_public = is_public]
                                ELSE r : r \in rows}]

\* the rows the query of delete_policy matches: the id and the caller
OwnedPolicyMut(rows, policy_id, user_id) == {r \in rows : r.id = policy_id}
OwnedPolicy(rows, policy_id, user_id) ==
    {r \in rows : r.id = policy_id /\ r.created_by = user_id}

delete_policy(rows, policy_id, user_id) ==
    LET own == OwnedPolicy(rows, policy_id, user_id)
    IN IF own = {} THEN [result |-> "NotFound", policies |-> rows]
       ELSE [result |-> "ok", policies |-> rows \ own]

\* the rows the policy query of assign can return: own or public
PoliciesForMut(rows, prompt_name, requester_id) ==
    {r \in rows : r.prompt_name = prompt_name}
PoliciesFor(rows, prompt_name, requester_id) ==
    {r \in rows : r.prompt_name = prompt_name
                    /\ (r.created_by = requester_id \/ r.is_public)}

AssignmentsOf(rows, experiment_name, prompt_name, user_id) ==
    {r \in rows : r.experiment_name = experiment_name
                    /\ r.prompt_name = prompt_name /\ r.user_id = user_id}

NewAssignment(id, experiment_name, prompt_name, user_id, version) ==
    [id |-> id, experiment_name |-> experiment_name,
     prompt_name |-> prompt_name, user_id |-> user_id, version |-> version]

\* `if existing: return existing.version`
ReturnExistingMut(existing, user_id, weights) == choose_variant(user_id, weights)
ReturnExisting(existing, user_id, weights) == existing.version

\* uq_assignment_unique, checked by the store when the insert is flushed
UniqueAssignmentMut(rows, rec) == TRUE
UniqueAssignment(rows, rec) ==
    AssignmentsOf(rows, rec.experiment_name, rec.prompt_name, rec.user_id) = {}

AbInserted == (nextPolicyId - 1) + (nextAssignmentId - 1)

\* weights: the policy.weights a call that returned a version had read
AbDone(experiment_name, prompt_name, user_id, weights, result, version) ==
    [pc |-> "done", op |-> "assign", experiment_name |-> experiment_name,
     prompt_name |-> prompt_name, user_id |-> user_id, weights |-> weights,
     result |-> result, version |-> version]

AbPending(pc, experiment_name, prompt_name, user_id, weights) ==
    [pc |-> pc, op |-> "assign", experiment_name |-> experiment_name,
     prompt_name |-> prompt_name, user_id |-> user_id, weights |-> weights]

\* what .first() of the policy query of assign may return: the query has no
\* ORDER BY, so any row that matches, or None when no row matches
FirstPolicy(rows, prompt_name, requester_id) ==
    IF PoliciesFor(rows, prompt_name, requester_id) = {} THEN {None}
    ELSE PoliciesFor(rows, prompt_name, requester_id)

\* assign as one transaction; `policy` is the row its policy query returned
assign(asg, id, experiment_name, prompt_name, user_id, policy) ==
    IF policy = None \/ policy.weights = <<>>
    THEN [result |-> "NotFound", version |-> 0, assignments |-> asg]
    ELSE LET found == AssignmentsOf(asg, experiment_name, prompt_name, user_id)
             version == choose_variant(user_id, policy.weights)
         IN IF found /= {}
            THEN [result |-> "ok",
                  version |-> ReturnExisting(CHOOSE r \in found : TRUE,
                                             user_id, policy.weights),
                  assignments |-> asg]
            ELSE [result |-> "ok", version |-> version,
                  assignments |-> asg \cup
                      {NewAssignment(id, experiment_name, prompt_name, user_id,
                                     version)}]

\* the rows of the SELECT of get_experiment_stats: ab_assignments joined to
\* ab_policies on prompt_name, one row per pair that passes the filter
StatsJoin(asg, pols, experiment_name, user_id) ==
    {j \in asg \X pols :
        /\ j[1].prompt_name = j[2].prompt_name
        /\ j[1].experiment_name = experiment_name
        /\ j[2].created_by = user_id \/ j[2].is_public}

\* Query.all() of the one mapped entity ABAssignment: the ORM returns each
\* object once, however many rows of the join carry it.  A returned item is
\* <<assignment, tag>>; the tag tells apart items that are kept apart.
UniqueEntitiesMut(join) == {<<j[1], j[2].id>> : j \in join}
UniqueEntities(join) == {<<j[1], 0>> : j \in join}

\* round(count / total * 100, 2), in hundredths of a percent (no tie occurs
\* for the totals of the model)
Percentage(count, total) == (2 * count * 10000 + total) \div (2 * total)

get_experiment_stats(asg, pols, experiment_name, user_id) ==
    LET items == UniqueEntities(StatsJoin(asg, pols, experiment_name, user_id))
        total == Cardinality(items)
        Count(version) == Cardinality({i \in items : i[1].version = version})
    IN [experiment_name |-> experiment_name,
        total_assignments |-> total,
        variants |-> [version \in {StrOf(i[1].version) : i \in items} |->
                         [count |-> Count(IntOf(version)),
                          percentage |-> Percentage(Count(IntOf(version)),
                                                    total)]]]

\* POST /ab/policy, one transaction
AbSetPolicy ==
    \E u \in Users, body \in PolRequests :
        LET r == set_policy(policies, nextPolicyId, NameA, body.weights, u,
                            body.is_public)
            inserted == Cardinality(r.policies) > Cardinality(policies)
        IN /\ inserted => AbInserted < MaxAbInserts
           /\ policies' = r.policies
           /\ nextPolicyId' = IF inserted THEN nextPolicyId + 1 ELSE nextPolicyId
           /\ UNCHANGED <<storeVars, procs, assignments, nextAssignmentId, pick,
                          testVars>>

\* DELETE /ab/policy/{policy_id}
AbDeletePolicy ==
    \E u \in Users, id \in 1..MaxAbInserts :
        /\ policies' = delete_policy(policies, id, u).policies
        /\ UNCHANGED <<storeVars, procs, nextPolicyId, assignments,
                       nextAssignmentId, pick, testVars>>

\* assign, lines 100-109: the policy query and its LookupError
AbPolicyRead ==
    \E p \in Procs, e \in Experiments, s \in AbSubjects, u \in Users :
        /\ MayStart(p)
        /\ LET found == PoliciesFor(policies, NameA, u)
           IN \/ /\ found = {}
                 /\ procs' = [procs EXCEPT ![p] =
                        AbDone(e, NameA, s, <<>>, "NotFound", 0)]
              \/ \E policy \in found :
                    procs' = [procs EXCEPT ![p] =
                        IF policy.weights = <<>>
                        THEN AbDone(e, NameA, s, <<>>, "NotFound", 0)
                        ELSE AbPending("ab_existing", e, NameA, s,
                                       policy.weights)]
        /\ UNCHANGED <<storeVars, abVars, pick, testVars>>

\* assign, lines 111-118: the query for an existing row
AbExistingRead ==
    \E p \in Procs :
        /\ procs[p].pc = "ab_existing"
        /\ LET me == procs[p]
               found == AssignmentsOf(assignments, me.experiment_name,
                                      me.prompt_name, me.user_id)
           IN \/ /\ found = {}
                 /\ procs' = [procs EXCEPT ![p].pc = "ab_insert"]
              \/ \E existing \in found :
                    procs' = [procs EXCEPT ![p] =
                        AbDone(me.experiment_name, me.prompt_name, me.user_id,
                               me.weights, "ok",
                               ReturnExisting(existing, me.user_id, me.weights))]
        /\ UNCHANGED <<storeVars, abVars, pick, testVars>>

\* assign, lines 120-129: choose_variant, db.add, db.commit
AbInsert ==
    \E p \in Procs :
        /\ procs[p].pc = "ab_insert"
        /\ AbInserted < MaxAbInserts
        /\ LET me == procs[p]
               version == choose_variant(me.user_id, me.weights)
               rec == NewAssignment(nextAssignmentId, me.experiment_name,
                                    me.prompt_name, me.user_id, version)
           IN IF UniqueAssignment(assignments, rec)
              THEN /\ assignments' = assignments \cup {rec}
                   /\ procs' = [procs EXCEPT ![p] =
                          AbDone(me.experiment_name, me.prompt_name,
                                 me.user_id, me.weights, "ok", version)]
              ELSE /\ assignments' = assignments
                   /\ procs' = [procs EXCEPT ![p] =
                          AbDone(me.experiment_name, me.prompt_name,
                                 me.user_id, <<>>, "IntegrityError", 0)]
        /\ nextAssignmentId' = nextAssignmentId + 1
        /\ UNCHANGED <<storeVars, policies, nextPolicyId, pick, testVars>>

NextAB ==
    \/ AbSetPolicy
    \/ AbDeletePolicy
    \/ AbPolicyRead
    \/ AbExistingRead
    \/ AbInsert

SpecAB == Init /\ [][NextAB]_vars

(***************************************************************************)
(* SpecPol: set_policy requests that overlap, statement by statement, with *)
(* delete_policy between them.  The unit of work writes at db.commit():    *)
(* an INSERT for a policy that was not found, else an UPDATE, by primary   *)
(* key, of the attributes whose new value differs from the loaded one.     *)
(***************************************************************************)
\* the unique index uq_ab_policies_prompt_name_user
UniquePolicyMut(rows, rec) == TRUE
UniquePolicy(rows, rec) ==
    OwnPolicies(rows, rec.prompt_name, rec.created_by) = {}


\* the bodies of the calls that overlap: all but the one of one arm
PolRaceRequests == {body \in PolRequests : Len(body.weights) /= 1}

PolDone(user_id, result) ==
    [pc |-> "done", op |-> "set_policy", user_id |-> user_id,
     result |-> result]

\* set_policy, lines 10-21: the loop over the weights and the query
PolRead ==
    \E p \in Procs, u \in Users, body \in PolRaceRequests :
        LET w == body.weights
            pub == body.is_public
        IN
        /\ MayStart(p)
        /\ IF InvalidWeights(w)
           THEN procs' = [procs EXCEPT ![p] = PolDone(u, "InvalidArgument")]
           ELSE \/ /\ OwnPolicies(policies, NameA, u) = {}
                   /\ procs' = [procs EXCEPT ![p] =
                          [pc |-> "pol_commit", op |-> "set_policy",
                           user_id |-> u, norm |-> Normalise(w, <<>>),
                           is_public |-> pub, policy |-> None]]
                \/ \E policy \in OwnPolicies(policies, NameA, u) :
                      procs' = [procs EXCEPT ![p] =
                          [pc |-> "pol_commit", op |-> "set_policy",
                           user_id |-> u, norm |-> Normalise(w, <<>>),
                           is_public |-> pub, policy |-> policy]]
        /\ UNCHANGED <<storeVars, abVars, pick, testVars>>

\* set_policy, lines 23-35: db.add or the attribute writes, and db.commit()
PolCommit ==
    \E p \in Procs :
        /\ procs[p].pc = "pol_commit"
        /\ LET me == procs[p]
               rec == NewPolicy(nextPolicyId, NameA, me.norm, me.user_id,
                                me.is_public)
               Written(cur) ==
                   [cur EXCEPT
                      !.weights = IF me.norm /= me.policy.weights
                                  THEN me.norm ELSE cur.weights,
                      !.is_public = IF me.is_public /= me.policy.is_public
                                    THEN me.is_public ELSE cur.is_public]
           IN IF me.policy = None
              THEN /\ AbInserted < MaxAbInserts
                   /\ nextPolicyId' = nextPolicyId + 1
                   /\ IF UniquePolicy(policies, rec)
                      THEN /\ policies' = policies \cup {rec}
                           /\ procs' = [procs EXCEPT ![p] =
                                  PolDone(me.user_id, "ok")]
                      ELSE /\ policies' = policies
                           /\ procs' = [procs EXCEPT ![p] =
                                  PolDone(me.user_id, "IntegrityError")]
              ELSE /\ nextPolicyId' = nextPolicyId
                   /\ IF \E cur \in policies : cur.id = me.policy.id
                      THEN /\ policies' =
                                {IF cur.id = me.policy.id THEN Written(cur)
                                 ELSE cur : cur \in policies}
                           /\ procs' = [procs EXCEPT ![p] =
                                  PolDone(me.user_id, "ok")]
                      ELSE /\ policies' = policies
                           /\ procs' = [procs EXCEPT ![p] =
                                  PolDone(me.user_id,
                                          IF Written(me.policy) = me.policy
                                          THEN "ok" ELSE "StaleDataError")]
        /\ UNCHANGED <<storeVars, assignments, nextAssignmentId, pick,
                       testVars>>

NextPol ==
    \/ PolRead
    \/ PolCommit
    \/ AbDeletePolicy

SpecPol == Init /\ [][NextPol]_vars

(***************************************************************************)
(* SpecRole: the endpoints of routers/prompts.py and routers/ab.py that    *)
(* write prompts or ab_policies, each behind the dependencies its route    *)
(* declares.  procs[1] holds the last request: who made it and whether a   *)
(* row was created, changed or deleted.                                    *)
(***************************************************************************)
Roles == {"admin", "editor", "viewer"}
\* the users whose role is viewer; the others are editors unless admins
Viewers == {2}
RoleOf(user) ==
    IF user \in Admins THEN "admin"
    ELSE IF user \in Viewers THEN "viewer" ELSE "editor"

\* the roles a route lets through: those of its require_roles dependency,
\* every role when it depends on get_current_user alone
RouteRoles ==
    [create |-> {"admin", "editor"}, update |-> {"admin", "editor"},
     delete |-> {"admin"}, rollback |-> {"admin", "editor"},
     visibility |-> {"admin", "editor"}, clone |-> Roles,
     set_policy |-> {"admin", "editor"}, delete_policy |-> Roles]

\* require_roles(*roles): 403 unless the user's role is one of them
require_roles(roles, user) == RoleOf(user) \in roles

RoleDone(op, user, wrote) ==
    [pc |-> "done", op |-> op, user |-> user, wrote |-> wrote]

\* a request to a route that writes prompts: refused with 403, or the
\* handler's result r
RolePromptStep(op, user, r) ==
    /\ nextPromptId <= MaxInserts
    /\ prompts' = IF require_roles(RouteRoles[op], user) THEN r.prompts
                  ELSE prompts
    /\ nextPromptId' = nextPromptId + 1
    /\ procs' = [procs EXCEPT ![1] = RoleDone(op, user, prompts' /= prompts)]
    /\ UNCHANGED <<deployments, nextDeploymentId, abVars, pick, testVars>>

\* a request to a route that writes ab_policies
RolePolicyStep(op, user, r) ==
    /\ nextPolicyId <= MaxAbInserts
    /\ policies' = IF require_roles(RouteRoles[op], user) THEN r.policies
                   ELSE policies
    /\ nextPolicyId' = nextPolicyId + 1
    /\ procs' = [procs EXCEPT ![1] =
           RoleDone(op, user, policies' /= policies)]
    /\ UNCHANGED <<storeVars, assignments, nextAssignmentId, pick, testVars>>

RoleCreate ==
    \E u \in Users, pub \in BOOLEAN :
        RolePromptStep("create", u,
            create_prompt(prompts, nextPromptId, u, NameA, PayloadHi, pub))

RoleUpdate ==
    \E u \in Users :
        RolePromptStep("update", u,
            update_prompt(prompts, nextPromptId, NameA, u, PayloadHello))

RoleRollback ==
    \E u \in Users :
        RolePromptStep("rollback", u,
            rollback(prompts, nextPromptId, NameA, 1, u))

RoleVisibility ==
    \E u \in Users, pub \in BOOLEAN :
        RolePromptStep("visibility", u, set_visibility(prompts, NameA, u, pub))

RoleClone ==
    \E u \in Users :
        RolePromptStep("clone", u,
            clone_prompt(prompts, nextPromptId, NameA, u, NoName))

RoleDelete ==
    \E u \in Users :
        RolePromptStep("delete", u, delete_prompt(prompts, deployments, NameA))

RoleSetPolicy ==
    \E u \in Users, body \in PolRequests :
        RolePolicyStep("set_policy", u,
            set_policy(policies, nextPolicyId, NameA, body.weights, u,
                       body.is_public))

RoleDeletePolicy ==
    \E u \in Users, id \in 1..MaxAbInserts :
        RolePolicyStep("delete_policy", u, delete_policy(policies, id, u))

NextRole ==
    \/ RoleCreate
    \/ RoleUpdate
    \/ RoleRollback
    \/ RoleVisibility
    \/ RoleClone
    \/ RoleDelete
    \/ RoleSetPolicy
    \/ RoleDeletePolicy

SpecRole == Init /\ [][NextRole]_vars

(***************************************************************************)
(* SpecAi: POST /ai/generate-prompt (routers/ai.py, services/ai.py).  A    *)
(* request counts the caller's ai_generations rows of the last day, calls  *)
(* the generator, and records its own row afterwards; requests of several  *)
(* workers interleave between these steps.  clock counts time in ticks;    *)
(* served is the history of the responses that carried a generated prompt. *)
(***************************************************************************)
\* settings.ai_max_requests_per_user_per_day, a positive value
DailyLimit == 1
\* timedelta(days=1), in ticks
WindowTicks == 2
MaxClock == 3
MaxGenerations == 3

\* the rows the usage query counts at time now
CountedRows(rows, user_id, now) ==
    {g \in rows : g.user_id = user_id /\ g.created_at >= now - WindowTicks}

usage_count(rows, user_id, now) == Cardinality(CountedRows(rows, user_id, now))

\* the 429 raised inside the try block and turned into a 500 by
\* "except Exception"
LimitReached(rows, user_id, now) ==
    DailyLimit > 0 /\ usage_count(rows, user_id, now) >= DailyLimit

\* AIGeneration(...): created_at is the server's now(), the start time of
\* the request's transaction
AIGeneration(id, user_id, began) ==
    [id |-> id, user_id |-> user_id, created_at |-> began]

\* _log_generation: the row is committed, or the failure is logged and
\* swallowed and nothing is stored
_log_generation(rows, id, user_id, began, stored) ==
    IF stored THEN rows \cup {AIGeneration(id, user_id, began)} ELSE rows

\* the request up to the generator call: the usage query and the limit test
AiCheck(p) ==
    /\ procs[p].pc /= "generating"
    /\ nextGenerationId <= MaxGenerations
    /\ \E u \in Users :
          procs' = [procs EXCEPT ![p] =
              IF LimitReached(generations, u, clock)
              THEN [pc |-> "done", op |-> "generate", user |-> u,
                    result |-> "error"]
              ELSE [pc |-> "generating", user |-> u, began |-> clock]]
    /\ UNCHANGED <<storeVars, abVars, pick, testCases, nextTestCaseId,
                   testRuns, nextTestRunId, usageEvents, nextUsageId,
                   authVars, aiVars>>

\* the generator call returns or raises; after a generated prompt the row
\* is recorded, best effort, and the prompt is the response
AiReturn(p) ==
    /\ procs[p].pc = "generating"
    /\ \E generated \in BOOLEAN, stored \in BOOLEAN :
          /\ generated \/ ~stored
          /\ generations' =
                 _log_generation(generations, nextGenerationId,
                                 procs[p].user, procs[p].began, stored)
          /\ served' = IF generated
                       THEN served \cup {[id |-> nextGenerationId,
                                          user |-> procs[p].user,
                                          at |-> clock]}
                       ELSE served
          /\ nextGenerationId' =
                 IF generated THEN nextGenerationId + 1 ELSE nextGenerationId
          /\ procs' = [procs EXCEPT ![p] =
                 [pc |-> "done", op |-> "generate", user |-> procs[p].user,
                  result |-> IF generated THEN "ok" ELSE "error"]]
    /\ UNCHANGED <<storeVars, abVars, pick, testCases, nextTestCaseId,
                   testRuns, nextTestRunId, usageEvents, nextUsageId,
                   authVars, clock>>

AiTick ==
    /\ clock < MaxClock
    /\ clock' = clock + 1
    /\ UNCHANGED <<storeVars, procs, abVars, pick, testCases, nextTestCaseId,
                   testRuns, nextTestRunId, usageEvents, nextUsageId,
                   authVars, generations, nextGenerationId, served>>

NextAi ==
    \/ \E p \in Procs : AiCheck(p)
    \/ \E p \in Procs : AiReturn(p)
    \/ AiTick

SpecAi == Init /\ [][NextAi]_vars

(***************************************************************************)
(* Properties of the version store, one request at a time (Spec)           *)
(***************************************************************************)
StoredNames == {r.name : r \in prompts}
ActiveRows(name) == {r \in RowsOf(prompts, name) : r.active}
Versions(rows, name) == {r.version : r \in RowsOf(rows, name)}
\* the creator of version 1 of a name
Creators(name) ==
    {r.created_by : r \in {x \in RowsOf(prompts, name) : x.version = 1}}

\* C1: every name that has a version row has exactly one row with
\* active = true, whatever mix of create, update, rollback, set_visibility,
\* clone and delete ran before.
C1_ExactlyOneActive ==
    \A n \in StoredNames : Cardinality(ActiveRows(n)) = 1

\* a name whose version 2 is active and whose version 1 no longer is,
\* beside a second stored name (a clone)
C1_Witness ==
    /\ Cardinality(StoredNames) >= 2
    /\ \E n \in StoredNames :
          /\ \E r \in RowsOf(prompts, n) : r.version = 1 /\ ~r.active
          /\ \E r \in RowsOf(prompts, n) : r.version = 2 /\ r.active

C8_CreateContract ==
    \A n \in KnownNames, u \in Users, p \in Payloads, pub \in BOOLEAN :
        LET r == create_prompt(prompts, nextPromptId, u, n, p, pub) IN
        IF RowsOf(prompts, n) /= {}
        THEN r.result = "AlreadyExists" /\ r.prompts = prompts
        ELSE /\ r.result = "ok"
             /\ r.row \notin prompts
             /\ r.prompts = prompts \cup {r.row}
             /\ r.row.name = n /\ r.row.version = 1 /\ r.row.active
             /\ r.row.created_by = u

\* a name created by user 1 that user 2 tries to create again, while
\* another stored name shows that rows of other names are there to be kept
C8_Witness ==
    /\ \E r \in RowsOf(prompts, NameA) : r.version = 1 /\ r.created_by = 1
    /\ Cardinality(StoredNames) >= 2
    /\ create_prompt(prompts, nextPromptId, 2, NameA, PayloadHello, TRUE).result
           = "AlreadyExists"

\* C10: update fails with NotFound on a name without versions and with
\* Forbidden for a caller who is not the name's owner; neither adds a row
\* nor changes an active flag.
C10_UpdateErrors ==
    \A n \in KnownNames, u \in Users, p \in Payloads :
        LET r == update_prompt(prompts, nextPromptId, n, u, p) IN
        /\ RowsOf(prompts, n) = {} =>
               r.result = "NotFound" /\ r.prompts = prompts
        /\ (RowsOf(prompts, n) /= {} /\ u \notin Creators(n)) =>
               r.result = "Forbidden" /\ r.prompts = prompts

\* user 2 updates a name of user 1 that already has two versions, and a
\* name that was deleted is updated
C10_Witness ==
    /\ \E n \in StoredNames :
          /\ Creators(n) = {1}
          /\ Cardinality(RowsOf(prompts, n)) >= 2
          /\ update_prompt(prompts, nextPromptId, n, 2, PayloadHi).result
                 = "Forbidden"
    /\ \E n \in KnownNames :
          /\ RowsOf(prompts, n) = {}
          /\ update_prompt(prompts, nextPromptId, n, 1, PayloadHi).result
                 = "NotFound"

\* the row of `rows` with primary key id (None when it is gone)
RowById(rows, id) ==
    IF \E r \in rows : r.id = id THEN CHOOSE r \in rows : r.id = id ELSE None

\* row `new` is row `old` up to its active flag and is_public
SameHistory(old, new) ==
    /\ new.id = old.id /\ new.name = old.name /\ new.version = old.version
    /\ new.template = old.template /\ new.variables = old.variables
    /\ new.created_by = old.created_by

\* C11: a successful rollback(name, target_version) adds exactly one row,
\* numbered max(version) + 1, with the template and variables of
\* target_version; it removes no row and changes no row's version, template,
\* variables or owner, and the target row is not active afterwards.
C11_RollbackFrame ==
    \A n \in KnownNames, u \in Users, v \in 1..MaxInserts :
        LET r == rollback(prompts, nextPromptId, n, v, u) IN
        r.result = "ok" =>
            /\ \A o \in prompts : r.row.id /= o.id
            /\ r.row \in r.prompts
            /\ Cardinality(r.prompts) = Cardinality(prompts) + 1
            /\ \A o \in prompts :
                  /\ RowById(r.prompts, o.id) /= None
                  /\ SameHistory(o, RowById(r.prompts, o.id))
                  /\ o.name /= n => o \in r.prompts
            /\ \A o \in RowsOf(prompts, n) : o.version < r.row.version
            /\ r.row.version = Cardinality(RowsOf(prompts, n)) + 1
            /\ r.row.name = n
            /\ \E t \in RowsOf(prompts, n) :
                  /\ t.version = v
                  /\ r.row.template = t.template
                  /\ r.row.variables = t.variables
                  /\ ~RowById(r.prompts, t.id).active

\* version 3 of a name was written by a rollback to version 1, whose
\* template differs from that of version 2; version 1 stays inactive
C11_Witness ==
    \E n \in StoredNames :
        \E r1, r2, r3 \in RowsOf(prompts, n) :
            /\ r1.version = 1 /\ r2.version = 2 /\ r3.version = 3
            /\ r3.template = r1.template /\ r2.template /= r1.template
            /\ ~r1.active /\ ~r2.active /\ r3.active
            /\ rollback(prompts, nextPromptId, n, 2, r1.created_by).result = "ok"

\* C12: after rollback(name, v) returned the new head h, diff(name, v, h)
\* asked by the owner is the empty diff, and the template stored at h is
\* the template stored at v.
C12_RollbackThenDiffEmpty ==
    \A n \in KnownNames, u \in Users, v \in 1..MaxInserts :
        LET r == rollback(prompts, nextPromptId, n, v, u)
            d == diff_versions(r.prompts, n, v, r.row.version, u)
        IN r.result = "ok" =>
              /\ d.result = "ok"
              /\ d.diff = <<>>
              /\ r.row.template = get_version(r.prompts, n, v, u).template

\* a head written by a rollback to version 1: its diff against version 1 is
\* empty, its diff against version 2, which has another template, is not
C12_Witness ==
    \E n \in StoredNames, u \in Users :
        /\ Versions(prompts, n) = {1, 2, 3}
        /\ diff_versions(prompts, n, 1, 3, u) = [result |-> "ok", diff |-> <<>>]
        /\ diff_versions(prompts, n, 2, 3, u).result = "ok"
        /\ diff_versions(prompts, n, 2, 3, u).diff /= <<>>
        /\ rollback(prompts, nextPromptId, n, 3, u).result = "ok"

\* no row of the name is visible to the viewer (the name may have no row)
Invisible(rows, name, viewer_id) ==
    \A r \in RowsOf(rows, name) : ~_is_visible(r, viewer_id)

\* the table without the rows of the name
Without(rows, name) == rows \ RowsOf(rows, name)

\* the results of update, rollback and set_visibility on `rows`
MutationResults(rows, name, user_id) ==
    {update_prompt(rows, nextPromptId, name, user_id, p).result : p \in Payloads}
    \cup {rollback(rows, nextPromptId, name, v, user_id).result
              : v \in 1..MaxInserts}
    \cup {set_visibility(rows, name, user_id, pub).result : pub \in BOOLEAN}

\* C13: update, rollback and set_visibility answer a caller who can see no
\* row of the name as they answer for a name without rows, with NotFound;
\* they answer Forbidden only when the name is visible to the caller, who
\* is not its owner.
C13_InvisibleIsNotFound ==
    \A n \in KnownNames, u \in Users :
        /\ Invisible(prompts, n, u) =>
               /\ MutationResults(prompts, n, u)
                      = MutationResults(Without(prompts, n), n, u)
               /\ MutationResults(prompts, n, u) = {"NotFound"}
        /\ "Forbidden" \in MutationResults(prompts, n, u) =>
               /\ ~Invisible(prompts, n, u)
               /\ u \notin Creators(n)

\* the visibility predicate: the viewer owns the row or the row is public
Readable(r, viewer) == r.created_by = viewer \/ r.is_public
ReadableRows(viewer) == {r \in prompts : Readable(r, viewer)}

\* arguments of the read operations
\* (limit, offset) of list_versions
Pages == {<<21, 0>>, <<1, 1>>}
\* (from_version, to_version) of diff_versions
DiffPairs == {<<1, 2>>, <<2, 1>>, <<3, 1>>, <<1, 1>>}
ActiveArgs == {<<>>, <<TRUE>>}
CreatedByArgs == {<<>>, <<1>>}
\* (q, active, created_by, latest_only, visibility, owned) of list_prompts:
\* no filter, each filter alone, and all filters together
ListPromptArgs ==
    { <<<<>>, <<>>, <<>>, FALSE, <<>>, <<>>>>,
      <<<<"COPY">>, <<>>, <<>>, FALSE, <<>>, <<>>>>,
      <<<<>>, <<TRUE>>, <<>>, FALSE, <<>>, <<>>>>,
      <<<<>>, <<>>, <<1>>, FALSE, <<>>, <<>>>>,
      <<<<>>, <<>>, <<>>, TRUE, <<>>, <<>>>>,
      <<<<>>, <<>>, <<>>, FALSE, <<"public">>, <<>>>>,
      <<<<>>, <<>>, <<>>, FALSE, <<"private">>, <<>>>>,
      <<<<>>, <<>>, <<>>, FALSE, <<"owned">>, <<>>>>,
      <<<<>>, <<>>, <<>>, FALSE, <<>>, <<TRUE>>>>,
      <<<<>>, <<>>, <<>>, FALSE, <<>>, <<FALSE>>>>,
      <<<<"COPY">>, <<TRUE>>, <<1>>, TRUE, <<"public">>, <<FALSE>>>>,
      <<<<"COPY">>, <<TRUE>>, <<1>>, TRUE, <<"owned">>, <<TRUE>>>> }

C15_VisibilityPerName ==
    \A n \in StoredNames :
        \A r1, r2 \in RowsOf(prompts, n) : r1.is_public = r2.is_public

\* a public name with two versions or more beside a private name
C15_Witness ==
    \E n, m \in StoredNames :
        /\ Cardinality(RowsOf(prompts, n)) >= 2
        /\ \A r \in RowsOf(prompts, n) : r.is_public
        /\ \A r \in RowsOf(prompts, m) : ~r.is_public

\* row `new` is row `old` up to is_public
SameButVisibility(old, new) ==
    SameHistory(old, new) /\ new.active = old.active

C17_CloneContract ==
    \A n \in KnownNames, u \in Users, nn \in NewNames :
        LET r == clone_prompt(prompts, nextPromptId, n, u, nn) IN
        r.result = "ok" =>
            /\ r.row \notin prompts
            /\ r.prompts = prompts \cup {r.row}
            /\ RowsOf(prompts, r.row.name) = {}
            /\ \A o \in prompts : o.id /= r.row.id
            /\ r.row.version = 1 /\ r.row.active /\ ~r.row.is_public
            /\ r.row.created_by = u
            /\ \E a \in ActiveRows(n) :
                  /\ r.row.template = a.template
                  /\ r.row.variables = a.variables

\* a public name of user 1 that user 2 has cloned once: a second clone by
\* user 2 gets the name with the suffix 2
C17_Witness ==
    \E n \in StoredNames :
        /\ \E a \in ActiveRows(n) : a.is_public /\ a.created_by = 1
        /\ \E c \in RowsOf(prompts, n \o <<"-", "copy">>) : c.created_by = 2
        /\ clone_prompt(prompts, nextPromptId, n, 2, NoName).result = "ok"
        /\ clone_prompt(prompts, nextPromptId, n, 2, NoName).row.name
               = n \o <<"-", "copy", "-", "2">>

\* C18: delete of a name fails, and removes nothing, whenever a deployment
\* refers to any row of the name, active or not; otherwise it removes all
\* rows of the name and no other row, and reports how many it removed.
C18_DeleteContract ==
    \A n \in KnownNames :
        LET r == delete_prompt(prompts, deployments, n)
            referred == \E d \in deployments, x \in RowsOf(prompts, n) :
                            d.prompt_id = x.id
        IN IF referred
           THEN r.result = "HasDeployments" /\ r.prompts = prompts
           ELSE /\ r.result = "ok"
                /\ r.prompts = prompts \ RowsOf(prompts, n)
                /\ r.count = Cardinality(prompts) - Cardinality(r.prompts)
                /\ r.count = Cardinality(RowsOf(prompts, n))

\* a deployment of version 1 of a name whose active version is 2 blocks the
\* delete of the name
C18_Witness ==
    \E n \in StoredNames, d \in deployments :
        /\ \E x \in RowsOf(prompts, n) :
              x.id = d.prompt_id /\ x.version = 1 /\ ~x.active
        /\ ~\E d2 \in deployments, x \in ActiveRows(n) : d2.prompt_id = x.id
        /\ delete_prompt(prompts, deployments, n).result = "HasDeployments"

(***************************************************************************)
(* Properties of overlapping requests on the version store (SpecTx)        *)
(***************************************************************************)
Finished(p, ops) == procs[p].pc = "done" /\ procs[p].op \in ops

\* C3: with update and rollback calls on one name overlapping, and with
\* calls dying between the UPDATE and the INSERT, no committed table has a
\* name with zero or two active rows or two rows with the same version.
C3_OverlapKeepsOneActive ==
    \A n \in StoredNames :
        /\ Cardinality(ActiveRows(n)) = 1
        /\ \A r1, r2 \in RowsOf(prompts, n) :
               r1.version = r2.version => r1 = r2

\* one call died after its UPDATE and before its INSERT, and another lost
\* the race for a version number to a call that committed
C3_Witness ==
    \E p, q \in Procs :
        /\ Finished(p, {"update", "rollback"})
        /\ procs[p].result = "crashed" /\ procs[p].at = "commit"
        /\ Finished(q, {"update", "rollback"})
        /\ procs[q].result = "IntegrityError"
        /\ \E n \in StoredNames : Cardinality(RowsOf(prompts, n)) >= 2

\* C9: of two create calls for one unused name that both pass the existence
\* check before either commits, one persists version 1 and the other fails
\* with AlreadyExists; the name ends with a single row.
C9_RacingCreates ==
    /\ \A n \in StoredNames :
          Cardinality({r \in RowsOf(prompts, n) : r.version = 1}) = 1
    /\ \A p \in Procs :
          (Finished(p, {"create"}) /\ procs[p].result \notin {"ok", "crashed"})
              => procs[p].result = "AlreadyExists"

(***************************************************************************)
(* Properties of choose_variant (SpecChoose)                               *)
(***************************************************************************)
TableKeys(w) == {w[i][1] : i \in 1..Len(w)}
TableVersions(w) == {IntOf(k) : k \in TableKeys(w)}

\* the weights of the keys whose version is at most v, added up
RECURSIVE SumUpTo(_, _, _)
SumUpTo(w, v, i) ==
    IF i > Len(w) THEN 0
    ELSE (IF IntOf(w[i][1]) <= v THEN w[i][2] ELSE 0) + SumUpTo(w, v, i + 1)

\* the least version whose cumulative weight exceeds bucket b
FirstExceeding(w, b) ==
    CHOOSE v \in TableVersions(w) :
        /\ SumUpTo(w, v, 1) > b
        /\ \A u \in TableVersions(w) : u < v => SumUpTo(w, u, 1) <= b

\* the tables with the items of w in another order
Reorderings(w) ==
    {[i \in 1..Len(w) |-> w[f[i]]] :
        f \in {g \in [1..Len(w) -> 1..Len(w)] :
                 \A i, j \in 1..Len(w) : i /= j => g[i] /= g[j]}}

\* C7: with total weight > 0 and bucket b = digest mod total, choose_variant
\* returns the first version, in ascending numeric order, whose cumulative
\* weight exceeds b; it is a key of the table, and the same for every
\* iteration order of the table.
C7_ChooseVariant ==
    (pick.pc = "returned" /\ SumWeights(pick.weights) > 0) =>
        LET w == pick.weights
            b == pick.digest % SumWeights(w)
        IN /\ pick.result = FirstExceeding(w, b)
           /\ pick.result \in TableVersions(w)
           /\ \A o \in Reorderings(w) :
                  choose_variant(pick.digest, o) = pick.result

\* a table that iterates "10" before "2", as str orders them, for a bucket
\* that falls on version 2
C7_Witness ==
    /\ pick.pc = "returned"
    /\ pick.weights = <<<<"10", 1>>, <<"2", 1>>>>
    /\ pick.digest = 2
    /\ pick.result = 2

(***************************************************************************)
(* Properties of assign (SpecAB)                                           *)
(***************************************************************************)
\* C5: whatever the interleaving of assign calls, the store holds at most
\* one assignment row per (experiment_name, prompt_name, user_id).
C5_OneRowPerTriple ==
    \A a, b \in assignments :
        (a.experiment_name = b.experiment_name /\ a.prompt_name = b.prompt_name
            /\ a.user_id = b.user_id) => a = b

\* a finished racing assign that lost the unique-constraint conflict, next to
\* the row of the winner
C5_Witness ==
    \E p \in Procs, a \in assignments :
        /\ Finished(p, {"assign"})
        /\ procs[p].result = "IntegrityError"
        /\ procs[p].user_id = a.user_id
        /\ procs[p].experiment_name = a.experiment_name

\* C4: once a row exists for a triple, every assign call that succeeds for
\* the triple returns the stored version, whatever set_policy did to the
\* weights in between, and no operation changes or removes the stored row.
C4_AssignmentSticks ==
    [][/\ \A a \in assignments : a \in assignments'
       /\ \A p \in Procs, a \in assignments :
             (/\ procs[p].pc \in {"ab_existing", "ab_insert"}
              /\ procs'[p].pc = "done"
              /\ procs'[p].result = "ok"
              /\ procs[p].experiment_name = a.experiment_name
              /\ procs[p].prompt_name = a.prompt_name
              /\ procs[p].user_id = a.user_id)
                 => procs'[p].version = a.version]_vars

\* an assign returned the stored version of its triple although the weights
\* it had read, changed since the row was written, choose another variant
C4_Witness ==
    \E p \in Procs, a \in assignments :
        /\ Finished(p, {"assign"})
        /\ procs[p].result = "ok"
        /\ procs[p].user_id = a.user_id
        /\ procs[p].experiment_name = a.experiment_name
        /\ procs[p].version = a.version
        /\ choose_variant(a.user_id, procs[p].weights) /= a.version

\* C6: an assign call that got past the policy lookup never ends in an
\* error: it returns the version of the row stored for its triple, also
\* when it lost the race for the first insert.
C6_LoserReturnsWinner ==
    \A p \in Procs :
        (Finished(p, {"assign"}) /\ procs[p].result /= "NotFound") =>
            /\ procs[p].result = "ok"
            /\ \E a \in AssignmentsOf(assignments, procs[p].experiment_name,
                                      procs[p].prompt_name, procs[p].user_id) :
                  a.version = procs[p].version

(***************************************************************************)
(* Properties of set_policy (SpecPol)                                      *)
(***************************************************************************)
\* C19: set_policy answers InvalidArgument to a weights table with a weight
\* <= 0 and leaves the stored policies as they were; every weight of every
\* stored policy is positive.
C19_WeightsPositive ==
    /\ \A po \in policies :
          \A i \in 1..Len(po.weights) : po.weights[i][2] > 0
    /\ \A u \in Users, w \in WeightInputs, pub \in BOOLEAN :
          (\E i \in 1..Len(w) : w[i][2] <= 0) =>
              LET r == set_policy(policies, nextPolicyId, NameA, w, u, pub)
              IN r.result = "InvalidArgument" /\ r.policies = policies

\* a request with a weight of 0 was refused while policies with weights are
\* stored
C19_Witness ==
    /\ \E p \in Procs :
          Finished(p, {"set_policy"}) /\ procs[p].result = "InvalidArgument"
    /\ \E po \in policies : po.weights /= <<>>
    /\ \E po \in policies : po.weights = <<>>

\* the policies that are not of user u
PoliciesOfOthers(rows, u) == {r \in rows : r.created_by /= u}

\* every (prompt_name, created_by) has at most one policy
OnePolicyPerOwner ==
    \A a, b \in policies :
        (a.prompt_name = b.prompt_name /\ a.created_by = b.created_by)
            => a = b

\* set_policy on the stored policies: the caller's policy keeps its id and
\* takes the new weights and is_public, or one policy is added when the
\* caller has none; the policies of the other user stay as they are
UpsertInPlace ==
    \A u \in Users, w \in WeightInputs, pub \in BOOLEAN :
        ~(\E i \in 1..Len(w) : w[i][2] <= 0) =>
            LET r == set_policy(policies, nextPolicyId, NameA, w, u, pub)
                own == {po \in policies : po.prompt_name = NameA
                                            /\ po.created_by = u}
                mine == {po \in r.policies : po.prompt_name = NameA
                                               /\ po.created_by = u}
            IN /\ r.result = "ok"
               /\ PoliciesOfOthers(r.policies, u)
                      = PoliciesOfOthers(policies, u)
               /\ Cardinality(mine) = 1
               /\ \A po \in mine :
                     /\ po.weights = Normalise(w, <<>>)
                     /\ po.is_public = pub
                     /\ po.id = IF own = {} THEN nextPolicyId
                                ELSE (CHOOSE o \in own : TRUE).id

\* a set_policy call that commits leaves the other user's policies alone and
\* adds no second policy of the caller
CommitKeepsOthers ==
    \A p \in Procs :
        (procs[p].pc = "pol_commit" /\ procs'[p].pc = "done") =>
            LET u == procs[p].user_id
            IN /\ PoliciesOfOthers(policies', u)
                      = PoliciesOfOthers(policies, u)
               /\ Cardinality(policies' \ PoliciesOfOthers(policies', u))
                      <= 1
               /\ policies /= policies' =>
                     \E po \in policies' :
                         /\ po.created_by = u
                         /\ po.id = IF procs[p].policy = None
                                    THEN nextPolicyId
                                    ELSE procs[p].policy.id

\* C20: at most one policy exists per (prompt_name, created_by), also when
\* set_policy calls overlap; set_policy replaces the caller's policy in place
\* and neither adds a second one nor changes a policy of another user.
C20_OnePolicyPerOwner ==
    /\ [](OnePolicyPerOwner /\ UpsertInPlace)
    /\ [][CommitKeepsOthers]_vars

\* two set_policy calls of one user overlapped: the second INSERT was refused
\* by the unique index and the user's policy is stored, next to the other
\* user's
C20_Witness ==
    /\ \E p \in Procs :
          /\ Finished(p, {"set_policy"})
          /\ procs[p].result = "IntegrityError"
          /\ \E po \in policies : po.created_by = procs[p].user_id
          /\ \E po \in policies : po.created_by /= procs[p].user_id

(***************************************************************************)
(* Properties of assign, the statistics and delete_policy (SpecAB)         *)
(***************************************************************************)
\* C21: when the requester owns a policy for the name and another user's
\* public policy for the name exists too, a first assign of a subject takes
\* the variant from the requester's own weights: whatever row the policy
\* query returns, assign answers and stores what it does with the own row.
C21_OwnPolicyPreferred ==
    \A u \in Users, e \in Experiments, sub \in AbSubjects :
        LET own == OwnPolicies(policies, NameA, u) IN
        (own /= {} /\ AssignmentsOf(assignments, e, NameA, sub) = {}) =>
            \A policy \in FirstPolicy(policies, NameA, u), mine \in own :
                assign(assignments, nextAssignmentId, e, NameA, sub, policy)
                    = assign(assignments, nextAssignmentId, e, NameA, sub, mine)

\* C22: assign answers NotFound and stores no assignment when the requester
\* has no policy for the name and none is public, or when the policy found
\* has no weights; the policy found is never another user's private one.
C22_AssignNotFound ==
    \A u \in Users, e \in Experiments, sub \in AbSubjects :
        \A policy \in FirstPolicy(policies, NameA, u) :
            LET r == assign(assignments, nextAssignmentId, e, NameA, sub, policy)
            IN /\ policy /= None => policy.created_by = u \/ policy.is_public
               /\ (\A po \in policies :
                      po.prompt_name = NameA
                          => po.created_by /= u /\ ~po.is_public)
                      => policy = None
               /\ (policy = None \/ policy.weights = <<>>) =>
                      r.result = "NotFound" /\ r.assignments = assignments
               /\ r.result = "NotFound" =>
                      policy = None \/ policy.weights = <<>>

\* the other user holds a private policy with weights, the requester holds
\* none: the query finds nothing and assign answers NotFound; and an assign
\* call has ended in NotFound
C22_Witness ==
    /\ \E u \in Users :
          /\ \E po \in policies :
                po.created_by /= u /\ ~po.is_public /\ po.weights /= <<>>
          /\ FirstPolicy(policies, NameA, u) = {None}
    /\ \E p \in Procs :
          Finished(p, {"assign"}) /\ procs[p].result = "NotFound"

\* the sum of the counts of a variants table
RECURSIVE SumCounts(_, _)
SumCounts(variants, versions) ==
    IF versions = {} THEN 0
    ELSE LET v == CHOOSE x \in versions : TRUE
         IN variants[v].count + SumCounts(variants, versions \ {v})

\* the assignments of an experiment whose name has a policy that the
\* requester owns or that is public
Counted(experiment_name, user_id) ==
    {a \in assignments :
        /\ a.experiment_name = experiment_name
        /\ \E po \in policies :
              /\ po.prompt_name = a.prompt_name
              /\ po.created_by = user_id \/ po.is_public}

\* C23: get_experiment_stats counts each assignment of the experiment once,
\* and only when a policy of its name is the requester's or public: the
\* total is the number of those assignments and the sum of the per-version
\* counts, and each count is the number of them with that version.
C23_StatsCountOnce ==
    \A u \in Users, e \in Experiments :
        LET st == get_experiment_stats(assignments, policies, e, u)
            counted == Counted(e, u)
        IN /\ st.total_assignments = Cardinality(counted)
           /\ st.total_assignments
                  = SumCounts(st.variants, DOMAIN st.variants)
           /\ DOMAIN st.variants = {StrOf(a.version) : a \in counted}
           /\ \A v \in DOMAIN st.variants :
                 st.variants[v].count
                     = Cardinality({a \in counted : StrOf(a.version) = v})

\* an assignment whose name has two policies that pass the filter for user
\* 1, so that the join has two rows with it, is counted once
C23_Witness ==
    \E e \in Experiments :
        /\ \E a \in assignments, po, pp \in policies :
              /\ po /= pp
              /\ {<<a, po>>, <<a, pp>>}
                     \subseteq StatsJoin(assignments, policies, e, 1)
        /\ get_experiment_stats(assignments, policies, e, 1).total_assignments
               = 1

\* delete_policy on the stored policies: NotFound (false, 404 at the router)
\* and nothing removed when no policy has the id or another user owns it;
\* otherwise exactly the policy with the id is removed
DeleteOnlyOwn ==
    \A u \in Users, id \in 1..MaxAbInserts :
        LET r == delete_policy(policies, id, u)
            target == {po \in policies : po.id = id}
        IN /\ (target = {} \/ \E po \in target : po.created_by /= u) =>
                  r.result = "NotFound" /\ r.policies = policies
           /\ r.result = "ok" =>
                  /\ r.policies = policies \ target
                  /\ Cardinality(target) = 1
                  /\ \A po \in target : po.created_by = u

\* a step that removes a policy removes one policy, changes no other and
\* leaves the assignments as they are
DeleteKeepsAssignments ==
    (policies' /= policies /\ policies' \subseteq policies) =>
        /\ Cardinality(policies') = Cardinality(policies) - 1
        /\ assignments' = assignments

\* C24: delete_policy returns false and leaves every policy unchanged when
\* the policy does not exist or another user owns it; when it returns true
\* exactly that policy is removed, and no assignment is removed or changed.
C24_DeletePolicy ==
    /\ []DeleteOnlyOwn
    /\ [][DeleteKeepsAssignments]_vars

\* a policy was deleted while an assignment is stored, and of a policy that
\* is stored the other user's delete is refused and the owner's is not
C24_Witness ==
    /\ nextPolicyId - 1 > Cardinality(policies)
    /\ assignments /= {}
    /\ \E po \in policies, u \in Users :
          /\ po.created_by /= u
          /\ delete_policy(policies, po.id, u).result = "NotFound"
          /\ delete_policy(policies, po.id, po.created_by).policies
                 = policies \ {po}

(***************************************************************************)
(* Properties of the deployments (SpecDep)                                 *)
(***************************************************************************)
\* the rows with a name and a version
VersionRows(name, version) ==
    {r \in RowsOf(prompts, name) : r.version = version}

\* C25: create_deployment succeeds only if a row (name, version) exists and
\* the user owns it, and then adds one deployment of that row by the user;
\* otherwise it answers NotFound and adds nothing.  So the deployed_by of
\* every deployment is the owner of the row it refers to.
C25_DeployOwnOnly ==
    /\ \A u \in Users, n \in DepNames, v \in 1..MaxDepPrompts,
          e \in DepEnvironments :
          LET r == create_deployment(prompts, deployments, nextDeploymentId,
                                     n, v, e, u)
              mine == {x \in VersionRows(n, v) : x.created_by = u}
          IN /\ mine = {} =>
                    r.result = "NotFound" /\ r.deployments = deployments
             /\ mine /= {} =>
                    /\ r.result = "ok"
                    /\ r.row \notin deployments
                    /\ r.deployments = deployments \cup {r.row}
                    /\ r.row.deployed_by = u /\ r.row.environment = e
                    /\ \E x \in mine : r.row.prompt_id = x.id
    /\ \A d \in deployments :
          \E x \in prompts : x.id = d.prompt_id /\ x.created_by = d.deployed_by

\* a deployment is stored, and a version that exists is refused to the user
\* who does not own it
C25_Witness ==
    /\ deployments /= {}
    /\ \E x \in prompts, u \in Users, e \in DepEnvironments :
          /\ x.created_by /= u
          /\ create_deployment(prompts, deployments, nextDeploymentId, x.name,
                               x.version, e, u).result = "NotFound"
          /\ create_deployment(prompts, deployments, nextDeploymentId, x.name,
                               x.version, e, x.created_by).result = "ok"

\* the name filters of GET /deployments/{environment}: none, or a name
DepNameArgs == {<<>>} \cup {<<n>> : n \in DepNames}
\* the limits history is called with: limit + 1 for limit 20 and limit 1
HistoryLimits == {21, 2}

\* current is the head of history at offset 0, and without a name filter it
\* is the deployment of the user in the environment that was created last
CurrentIsLatest ==
    \A e \in DepEnvironments, u \in Users, n \in DepNameArgs :
        LET cur == current_deployment(deployments, prompts, e, u, n)
            mine == {d \in deployments : d.environment = e /\ d.deployed_by = u}
        IN /\ \A limit \in HistoryLimits :
                 LET h == history(deployments, prompts, e, u, n, limit, 0)
                 IN IF h = <<>> THEN cur = None ELSE cur = h[1]
           /\ n = <<>> =>
                 IF mine = {} THEN cur = None
                 ELSE cur \in mine /\ \A d \in mine : d.id <= cur.id

\* no step changes or removes a deployment
AppendOnly == \A d \in deployments : d \in deployments'

\* the deployment a create_deployment step has added is the current one of
\* its user in its environment
CreatedIsCurrent ==
    \A d \in deployments' \ deployments :
        current_deployment(deployments', prompts', d.environment,
                           d.deployed_by, <<>>) = d

RunTestsDone(me) ==
    me.pc = "done" /\ me.op = "run_tests" /\ me.cases /= <<>>

\* what a run says when its case's call did not fail: the text, and, when
\* the case has an expected output, whether the trimmed texts are equal
RunOfCase(run, case, outcome) ==
    /\ run.output = outcome.text
    /\ run.error_message = <<>>
    /\ run.success =
           IF case.expected_output = <<>> THEN <<>>
           ELSE <<Strip(outcome.text, {" "}) = Strip(case.expected_output, {" "})>>

\* C27: run_tests over a non-empty selection returns exactly one TestRun per
\* selected case whatever subset of the generator calls fail: the run of a
\* failing case has error_message set and success false, the run of every
\* other case is what its own call gave, every run is persisted, and the
\* batch itself succeeds.
C27_OneRunPerCase ==
    \A p \in Procs :
        RunTestsDone(procs[p]) =>
            LET me == procs[p] IN
            /\ me.result = "ok"
            /\ Len(me.runs) = Len(me.cases)
            /\ \A i \in 1..Len(me.cases) :
                  /\ me.runs[i].test_case_id = me.cases[i].id
                  /\ me.runs[i] \in testRuns
                  /\ \A j \in 1..Len(me.cases) :
                        i /= j => me.runs[i].id /= me.runs[j].id
                  /\ IF me.outcomes[i].raised
                     THEN /\ me.runs[i].error_message /= <<>>
                          /\ me.runs[i].success = <<FALSE>>
                     ELSE RunOfCase(me.runs[i], me.cases[i], me.outcomes[i])

\* a batch of two cases has finished: the call of the first one raised, the
\* call of the second one returned the expected text
C27_Witness ==
    \E p \in Procs :
        /\ RunTestsDone(procs[p])
        /\ Len(procs[p].cases) = 2
        /\ procs[p].outcomes[1].raised
        /\ ~procs[p].outcomes[2].raised
        /\ procs[p].cases[2].expected_output /= <<>>
        /\ Len(procs[p].runs) = 2
        /\ procs[p].runs[2].success = <<TRUE>>

\* C28: in generate_test_cases and run_tests no store transaction is open
\* while a call of the generator is in flight.
C28_NoTransactionAcrossCall ==
    \A p \in Procs :
        procs[p].pc \in {"gen_call", "run_call"} => ~procs[p].tx

\* C29: also when set_visibility overlaps an update or a rollback of the same
\* name, in every committed state all version rows of a name have the same
\* is_public.
C29_VisibilityUnderRace ==
    \A r \in prompts :
        \A o \in RowsOf(prompts, r.name) : o.is_public = r.is_public

\* C30: delete_prompt succeeds whenever no deployment references a version
\* row of the name, whatever usage events, test cases and test runs
\* reference those rows.
C30_DeleteBlockedByDeploymentsOnly ==
    (~\E d \in deployments : d.prompt_id \in PromptIds(prompts, NameA))
        => delete_cascade(prompts, deployments, usageEvents, testCases,
                          testRuns, NameA).result = "ok"

\* C31: in every reachable state, also when create_deployment overlaps a
\* delete of the same name, every deployment row references a prompt row
\* that exists.
C31_DeploymentsReferenceRows ==
    \A d \in deployments : \E r \in prompts : r.id = d.prompt_id

\* a deployment exists, and another create_deployment that had found its
\* version row before a delete removed it was refused at its commit
C31_Witness ==
    /\ deployments /= {}
    /\ \E p \in Procs :
          /\ procs[p].pc = "done"
          /\ procs[p].op = "deploy"
          /\ procs[p].result = "IntegrityError"

\* the bucket values of a table that select version v
BucketsOf(w, v) ==
    {b \in 0..(SumWeights(w) - 1) : choose_variant(b, w) = v}

\* C32: for a table of positive weights with total T, the number of bucket
\* values in 0..T-1 for which choose_variant selects version v is the weight
\* of v, for every v of the table.
C32_WeightProportional ==
    (pick.pc = "returned" /\ \A i \in 1..Len(pick.weights) : pick.weights[i][2] > 0)
        => \A i \in 1..Len(pick.weights) :
              Cardinality(BucketsOf(pick.weights, IntOf(pick.weights[i][1])))
                  = pick.weights[i][2]

\* a call on a table of two versions with different positive weights
C32_Witness ==
    /\ pick.pc = "returned"
    /\ pick.weights = <<<<"2", 2>>, <<"1", 1>>>>
    /\ BucketsOf(pick.weights, 2) = {1, 2}

Refreshed(old, new) ==
    /\ new \in refreshTokens'
    /\ \A t \in refreshTokens : t.id /= new.id
    /\ new.parent = old
    /\ old /= 0

\* C35: one request at a time, a token that a refresh has been granted for
\* is never accepted again: it is revoked by that refresh, revoked rows stay
\* revoked while they exist, and right after the refresh the new token
\* verifies and the old one does not.
C35_RefreshSingleUse ==
    /\ [](\A t \in refreshTokens :
             t.parent /= 0 => verify_refresh_token(refreshTokens, t.parent) = 0)
    /\ [][\A t \in refreshTokens : \A n \in refreshTokens' :
             (n.id = t.id /\ t.revoked) => n.revoked]_vars
    /\ [][\A old \in Cookies : \A new \in refreshTokens' :
             Refreshed(old, new) =>
                 /\ verify_refresh_token(refreshTokens', new.token)
                        = new.user_id
                 /\ verify_refresh_token(refreshTokens', old) = 0
                 /\ verify_refresh_token(refreshTokens, old) = new.user_id]_vars

\* a refresh with token 1 was granted, and a later refresh that presented
\* token 1 again was turned down
C35_Witness ==
    /\ \E t \in refreshTokens : t.parent = 1
    /\ procs[1] = AuthDone("refresh", "Unauthorized", 1, 0)

\* C36: of the refresh requests that present one token, also overlapping
\* ones, at most one is granted: at most one token is made from it.
C36_OneRefreshPerToken ==
    \A t, o \in refreshTokens :
        (t.parent /= 0 /\ t.parent = o.parent) => t.id = o.id

\* C37: once a logout-all of a user is complete, no token of that user that
\* was verified or issued before is of use: every token that verifies came
\* from a login or a verification after the user's last logout-all.
C37_LogoutAllEndsSessions ==
    \A t \in refreshTokens :
        Usable(t) => t.epoch = logoutAlls[t.user_id]

\* C38: a test case made for a name stays in the name's suite when versions
\* are added: list_suite returns it to the owner, and run_tests without
\* case_ids selects it.
C38_SuiteSurvivesVersions ==
    \A c \in testCases : \A r \in prompts :
        r.id = c.prompt_id =>
            /\ c \in list_suite(prompts, testCases, r.name, r.created_by).cases
            /\ c \in SelectedCases(testCases,
                       _require_prompt_owner(prompts, r.name,
                                             r.created_by).prompt, {})

\* C39: no request of a user whose role is viewer creates, changes or
\* deletes a row of prompts or of ab_policies.
C39_ViewerWritesNothing ==
    (procs[1].pc = "done" /\ procs[1].wrote)
        => RoleOf(procs[1].user) /= "viewer"

\* the generated prompts a user was served in the day that ends at time t
ServedInWindow(u, t) ==
    {g \in served : g.user = u /\ g.at > t - WindowTicks /\ g.at <= t}

\* C40: with a positive daily limit, no user is served more generated
\* prompts than the limit within any trailing day.
C40_DailyLimitHolds ==
    DailyLimit > 0 =>
        \A u \in Users, t \in 0..MaxClock :
            Cardinality(ServedInWindow(u, t)) <= DailyLimit

====
